---- MODULE Spec2Model ----
(***************************************************************************)
(* TalkV2: the request-admission layer (rate limiter, origin guard) and    *)
(* the credential / session lifecycle (register, credential sign-in,       *)
(* profile read / update / deactivation, password change).                 *)
(*                                                                         *)
(* Strings are sequences of one-character strings, so that toLowerCase,    *)
(* trim, split and concatenation are computed and not assumed.  Time is    *)
(* the millisecond clock read by `new Date()`.                             *)
(***************************************************************************)
EXTENDS Integers, Sequences, FiniteSets, TLC

VARIABLES
  now,             \* the wall clock, in ms (what new Date() returns)
  nodeEnv,         \* process.env.NODE_ENV
  rateLimitStore,  \* security.ts: the process-wide Map key -> entry
  users,           \* prisma.user: id -> row
  sessions,        \* prisma.session rows (user ids)
  accounts,        \* prisma.account rows (user ids)
  tokens,          \* per user, the session cookie (signed JWT) the user's browser holds
  reqs,            \* the requests in flight: slot -> handler position and locals
  limiter,         \* the configuration of the rate limiter the handlers call
  lastCheck,       \* the last call RateLimitCheck made: key, time, entry found, result
  seen,            \* per key: the checks answered with the current resetTime
  deactivated      \* the users whose DELETE /user/profile was answered 200

vars == <<now, nodeEnv, rateLimitStore, users, sessions, accounts, tokens, reqs,
          limiter, lastCheck, seen, deactivated>>

----------------------------------------------------------------------------
(* Bounds of the model *)

MaxWindows == 2      \* the clock covers this many auth windows
MaxCount == 6        \* no more checks are made on an entry once its count is here

\* undefined / null / an absent header, where a string may stand
None == <<"undefined">>

Max(a, b) == IF a >= b THEN a ELSE b

\* Math.ceil(n / d) for d > 0
Ceil(n, d) == IF n >= 0 THEN (n + d - 1) \div d ELSE -((-n) \div d)

----------------------------------------------------------------------------
(* Characters and strings *)

LowerChars ==
  {"a", "b", "c", "d", "e", "f", "g", "h", "i", "j", "k", "l", "m",
   "n", "o", "p", "q", "r", "s", "t", "u", "v", "w", "x", "y", "z"}
UpperChars ==
  {"A", "B", "C", "D", "E", "F", "G", "H", "I", "J", "K", "L", "M",
   "N", "O", "P", "Q", "R", "S", "T", "U", "V", "W", "X", "Y", "Z"}
DigitChars == {"0", "1", "2", "3", "4", "5", "6", "7", "8", "9"}

\* String.prototype.toLowerCase, one character
lowerChar(c) ==
  CASE c = "A" -> "a" [] c = "B" -> "b" [] c = "C" -> "c" [] c = "D" -> "d"
    [] c = "E" -> "e" [] c = "F" -> "f" [] c = "G" -> "g" [] c = "H" -> "h"
    [] c = "I" -> "i" [] c = "J" -> "j" [] c = "K" -> "k" [] c = "L" -> "l"
    [] c = "M" -> "m" [] c = "N" -> "n" [] c = "O" -> "o" [] c = "P" -> "p"
    [] c = "Q" -> "q" [] c = "R" -> "r" [] c = "S" -> "s" [] c = "T" -> "t"
    [] c = "U" -> "u" [] c = "V" -> "v" [] c = "W" -> "w" [] c = "X" -> "x"
    [] c = "Y" -> "y" [] c = "Z" -> "z"
    [] OTHER -> c

toLowerCase(s) == [i \in 1..Len(s) |-> lowerChar(s[i])]

isSpace(c) == c = " "

RECURSIVE trimStart(_)
trimStart(s) == IF s # <<>> /\ isSpace(Head(s)) THEN trimStart(Tail(s)) ELSE s

RECURSIVE trimEnd(_)
trimEnd(s) ==
  IF s # <<>> /\ isSpace(s[Len(s)]) THEN trimEnd(SubSeq(s, 1, Len(s) - 1)) ELSE s

\* String.prototype.trim
trim(s) == trimEnd(trimStart(s))

\* String.prototype.substring(0, n)
substring0(s, n) == IF Len(s) <= n THEN s ELSE SubSeq(s, 1, n)

\* does `s` contain `sub` from position i on
startsAt(s, sub, i) ==
  /\ i + Len(sub) - 1 <= Len(s)
  /\ \A j \in 1..Len(sub) : s[i + j - 1] = sub[j]

\* String.prototype.includes
includes(s, sub) == \E i \in 1..(Len(s) + 1) : startsAt(s, sub, i)

\* s.split(sep)[0] for a one-character separator
RECURSIVE splitFirst(_, _)
splitFirst(s, sep) ==
  IF s = <<>> \/ Head(s) = sep THEN <<>> ELSE <<Head(s)>> \o splitFirst(Tail(s), sep)

\* JavaScript truthiness of an optional string
truthy(v) == v # None /\ v # <<>>

\* a || b
orElse(a, b) == IF truthy(a) THEN a ELSE b

----------------------------------------------------------------------------
(* security.ts: the rate limiter *)

AuthWindowMs == 15 * 60 * 1000
AuthMaxRequests == 5

PasswordResetWindowMs == 60 * 60 * 1000
PasswordResetMaxRequests == 3

\* rateLimiters.auth with one request more per window
authConfig_sixPerWindow ==
  [windowMs |-> AuthWindowMs, maxRequests |-> AuthMaxRequests + 1,
   skipSuccessfulRequests |-> FALSE, skipFailedRequests |-> FALSE]

\* rateLimiters.auth with one of the optional flags of RateLimitConfig set
skipFailedConfig ==
  [windowMs |-> AuthWindowMs, maxRequests |-> AuthMaxRequests,
   skipSuccessfulRequests |-> FALSE, skipFailedRequests |-> TRUE]

skipSuccessfulConfig ==
  [windowMs |-> AuthWindowMs, maxRequests |-> AuthMaxRequests,
   skipSuccessfulRequests |-> TRUE, skipFailedRequests |-> FALSE]

\* the configurations of rateLimiters.auth and rateLimiters.passwordReset;
\* skipFailedRequests is not given (undefined, falsy)
authConfig ==
  [windowMs |-> AuthWindowMs, maxRequests |-> AuthMaxRequests,
   skipSuccessfulRequests |-> FALSE, skipFailedRequests |-> FALSE]

passwordResetConfig ==
  [windowMs |-> PasswordResetWindowMs, maxRequests |-> PasswordResetMaxRequests,
   skipSuccessfulRequests |-> FALSE, skipFailedRequests |-> FALSE]

\* res.statusCode of a response no handler has set a status on yet
DefaultStatusCode == 200

\* the instants the clock is sampled at: around the boundaries of windows of w ms
Times(w) ==
  {k * w + j : k \in 0..MaxWindows, j \in {0, 1}}

RegisterUrl ==
  <<"/", "a", "p", "i", "/", "a", "u", "t", "h", "/", "r", "e", "g", "i", "s", "t", "e", "r">>

IpA == <<"1", "0", ".", "0", ".", "0", ".", "1">>
IpB == <<"1", "0", ".", "0", ".", "0", ".", "2">>

\* x-forwarded-for as Node delivers it and as the Next.js type allows it:
\* absent, one string (possibly a comma-separated chain), or an array of strings
ForwardedHeaders ==
  { [kind |-> "none"],
    [kind |-> "string", val |-> IpA],
    [kind |-> "string", val |-> IpB \o <<",", " ">> \o IpA],
    [kind |-> "array", vals |-> <<IpA, IpB>>] }

RemoteAddresses == {None, IpB}

\* `${x}` of an optional string
template(v) ==
  IF v = None THEN <<"u", "n", "d", "e", "f", "i", "n", "e", "d">> ELSE v

Unknown == <<"u", "n", "k", "n", "o", "w", "n">>

getDefaultKey(forwarded, remoteAddress, userId, url) ==
  LET ip == IF forwarded.kind = "array"
            THEN forwarded.vals[1]
            ELSE orElse(orElse(IF forwarded.kind = "none" THEN None
                                ELSE splitFirst(forwarded.val, ","),
                               remoteAddress),
                        Unknown)
  IN template(orElse(userId, ip)) \o <<":">> \o url

\* line 38: now > entry.resetTime
isExpired_ge(t, entry) == t >= entry.resetTime
isExpired(t, entry) == t > entry.resetTime

\* lines 49-51
shouldCount(statusCode, config) ==
  \/ statusCode >= 200 /\ statusCode < 300 /\ ~config.skipSuccessfulRequests
  \/ statusCode >= 400 /\ ~config.skipFailedRequests

\* a limit that refuses the request after the last admitted one and no other
withinLimit_onlyNext(count, config) == count # config.maxRequests + 1

\* line 59
withinLimit_lt(count, config) == count < config.maxRequests
withinLimit(count, config) == count <= config.maxRequests

\* line 58
remainingOf_unclamped(count, config) == config.maxRequests - count
remainingOf(count, config) == Max(0, config.maxRequests - count)

\* a store that keeps the entry it has
put_keepOld(store, key, entry) ==
  [k \in DOMAIN store \cup {key} |-> IF k \in DOMAIN store THEN store[k] ELSE entry]

\* a store that holds one entry for all its keys
put_everyKey(store, key, entry) ==
  [k \in DOMAIN store \cup {key} |-> entry]

\* the entry the Map holds under the key is the object the check has counted on
put(store, key, entry) ==
  [k \in DOMAIN store \cup {key} |-> IF k = key THEN entry ELSE store[k]]

\* lines 102-109
cleanupExpiredEntries(store, t) ==
  [k \in {k \in DOMAIN store : ~(t > store[k].resetTime)} |-> store[k]]

\* The body of the closure rateLimit(config) returns; it has no await inside, so
\* it runs to completion.  t is the `new Date()` of line 33, t2 the one of the
\* clean-up (line 103).  entry is the object both the Map and the result refer to.
rateLimit(config, key, statusCode, t, t2, store) ==
  LET found == key \in DOMAIN store
      fresh == ~found \/ isExpired(t, store[key])
      entry0 == IF fresh
                THEN [count |-> 0, resetTime |-> t + config.windowMs,
                      windowMs |-> config.windowMs]
                ELSE store[key]
      entry == IF shouldCount(statusCode, config)
               THEN [entry0 EXCEPT !.count = @ + 1]
               ELSE entry0
      success == withinLimit(entry.count, config)
  IN [store |-> cleanupExpiredEntries(put(store, key, entry), t2),
      fresh |-> fresh,
      entry |-> entry,
      result |-> [success |-> success, limit |-> config.maxRequests,
                  remaining |-> remainingOf(entry.count, config),
                  resetTime |-> entry.resetTime],
      \* the Retry-After header: the empty set when it is not set
      retryAfter |-> IF success THEN {} ELSE {Ceil(entry.resetTime - t, 1000)}]

----------------------------------------------------------------------------
(* lib/auth.ts: the credential service *)

SaltRounds == 12

\* bcrypt.hash: the hash names the password it was made of
hashPassword(password) == [rounds |-> SaltRounds, of |-> password]

\* bcrypt.compare
validatePassword(password, hashedPassword) == hashedPassword.of = password

MinPasswordLength == 8
MaxPasswordLength == 128

commonPasswords ==
  <<<<"p", "a", "s", "s", "w", "o", "r", "d">>, <<"1", "2", "3", "4", "5", "6">>, <<"1", "2", "3", "4", "5", "6", "7", "8", "9">>, <<"q", "w", "e", "r", "t", "y">>, <<"a", "b", "c", "1", "2", "3">>,
    <<"p", "a", "s", "s", "w", "o", "r", "d", "1", "2", "3">>, <<"a", "d", "m", "i", "n">>, <<"l", "e", "t", "m", "e", "i", "n">>, <<"w", "e", "l", "c", "o", "m", "e">>, <<"m", "o", "n", "k", "e", "y">>>>

hasChar(s, set) == \E i \in 1..Len(s) : s[i] \in set

\* the validation that stops at the first violated rule
validatePasswordStrength_firstOnly(password) ==
  IF Len(password) < MinPasswordLength
  THEN [isValid |-> FALSE, errors |-> <<"at least 8 characters">>]
  ELSE IF Len(password) > MaxPasswordLength
  THEN [isValid |-> FALSE, errors |-> <<"less than 128 characters">>]
  ELSE IF ~hasChar(password, LowerChars)
  THEN [isValid |-> FALSE, errors |-> <<"one lowercase letter">>]
  ELSE IF ~hasChar(password, UpperChars)
  THEN [isValid |-> FALSE, errors |-> <<"one uppercase letter">>]
  ELSE IF ~hasChar(password, DigitChars)
  THEN [isValid |-> FALSE, errors |-> <<"one number">>]
  ELSE IF \E i \in 1..Len(commonPasswords) :
            includes(toLowerCase(password), commonPasswords[i])
  THEN [isValid |-> FALSE, errors |-> <<"too common">>]
  ELSE [isValid |-> TRUE, errors |-> <<>>]

validatePasswordStrength(password) ==
  LET errors ==
        (IF Len(password) < MinPasswordLength THEN <<"at least 8 characters">> ELSE <<>>)
        \o (IF Len(password) > MaxPasswordLength THEN <<"less than 128 characters">> ELSE <<>>)
        \o (IF ~hasChar(password, LowerChars) THEN <<"one lowercase letter">> ELSE <<>>)
        \o (IF ~hasChar(password, UpperChars) THEN <<"one uppercase letter">> ELSE <<>>)
        \o (IF ~hasChar(password, DigitChars) THEN <<"one number">> ELSE <<>>)
        \o (IF \E i \in 1..Len(commonPasswords) :
                 includes(toLowerCase(password), commonPasswords[i])
            THEN <<"too common">> ELSE <<>>)
  IN [isValid |-> Len(errors) = 0, errors |-> errors]

----------------------------------------------------------------------------
(* lib/auth.ts: sanitizeInput *)

MaxInputLength == 1000

WordChars == LowerChars \cup UpperChars \cup DigitChars \cup {"_"}

ScriptOpen == <<"<", "s", "c", "r", "i", "p", "t">>
ScriptClose == <<"<", "/", "s", "c", "r", "i", "p", "t", ">">>

\* /<script\b/i matches at i
scriptOpensAt(s, i) ==
  /\ startsAt(toLowerCase(s), ScriptOpen, i)
  /\ i + Len(ScriptOpen) <= Len(s)
  /\ s[i + Len(ScriptOpen)] \notin WordChars

\* where the first </script> at or after position i starts; 0 when there is none
closeFrom(s, i) ==
  LET at == {j \in i..Len(s) : startsAt(toLowerCase(s), ScriptClose, j)}
  IN IF at = {} THEN 0 ELSE CHOOSE j \in at : \A k \in at : j <= k

\* .replace(/<script\b[^<]*(?:(?!<\/script>)<[^<]*)*<\/script>/gi, '') from position i on
RECURSIVE stripScriptsFrom(_, _)
stripScriptsFrom(s, i) ==
  IF i > Len(s) THEN <<>>
  ELSE IF scriptOpensAt(s, i) /\ closeFrom(s, i + Len(ScriptOpen)) # 0
       THEN stripScriptsFrom(s, closeFrom(s, i + Len(ScriptOpen)) + Len(ScriptClose))
       ELSE <<s[i]>> \o stripScriptsFrom(s, i + 1)

\* where the first ">" after position i is; 0 when there is none
gtAfter(s, i) ==
  LET at == {j \in (i + 1)..Len(s) : s[j] = ">"}
  IN IF at = {} THEN 0 ELSE CHOOSE j \in at : \A k \in at : j <= k

\* .replace(/<[^>]*>/g, '') from position i on
RECURSIVE stripTagsFrom(_, _)
stripTagsFrom(s, i) ==
  IF i > Len(s) THEN <<>>
  ELSE IF s[i] = "<" /\ gtAfter(s, i) # 0
       THEN stripTagsFrom(s, gtAfter(s, i) + 1)
       ELSE <<s[i]>> \o stripTagsFrom(s, i + 1)

sanitizeInput(input) ==
  substring0(stripTagsFrom(stripScriptsFrom(trim(input), 1), 1), MaxInputLength)

----------------------------------------------------------------------------
(* lib/schemas.ts: the zod schemas, as the success of safeParse *)

\* a field the body does not carry
Absent == "undefined"

indexesOf(s, c) == {i \in 1..Len(s) : s[i] = c}

AtSign == "@"

EmailChars == LowerChars \cup UpperChars \cup DigitChars \cup {".", "_", "-", "+"}

\* z.string().email(): local@label(.label)*.tld with a tld of two letters or more
isEmail(s) ==
  /\ Cardinality(indexesOf(s, AtSign)) = 1
  /\ LET at == CHOOSE i \in indexesOf(s, AtSign) : TRUE
         dots == {i \in indexesOf(s, ".") : i > at}
     IN /\ at > 1
        /\ \A i \in 1..(at - 1) : s[i] \in EmailChars
        /\ s[1] # "." /\ s[at - 1] # "."
        /\ dots # {}
        /\ \A i \in (at + 1)..Len(s) : s[i] \in LowerChars \cup UpperChars \cup DigitChars \cup {".", "-"}
        /\ \A i \in dots : i > at + 1 /\ i < Len(s) /\ s[i + 1] # "."
        /\ LET last == CHOOSE i \in dots : \A j \in dots : j <= i
           IN /\ Len(s) - last >= 2
              /\ \A i \in (last + 1)..Len(s) : s[i] \in LowerChars \cup UpperChars

signInSchema(credentials) ==
  /\ Len(credentials.email) >= 1
  /\ isEmail(credentials.email)
  /\ Len(credentials.password) >= 1

DisplayNameChars == LowerChars \cup UpperChars \cup DigitChars \cup {" ", ".", "_", "-"}
UsernameChars == LowerChars \cup UpperChars \cup DigitChars \cup {".", "_", "-"}

MinDisplayNameLength == 2
MaxDisplayNameLength == 32
MinUsernameLength == 3
MaxUsernameLength == 32
MaxBioLength == 280
MaxEmailLength == 254

StatusEnum == {"ONLINE", "IDLE", "DO_NOT_DISTURB", "INVISIBLE", "OFFLINE"}

displayNameOk(v) ==
  /\ Len(v) >= MinDisplayNameLength
  /\ Len(v) <= MaxDisplayNameLength
  /\ \A i \in 1..Len(v) : v[i] \in DisplayNameChars

usernameOk(v) ==
  /\ Len(v) >= MinUsernameLength
  /\ Len(v) <= MaxUsernameLength
  /\ \A i \in 1..Len(v) : v[i] \in UsernameChars

\* signUpSchema.safeParse(body): success, and the parsed data (displayName trimmed)
signUpSchema(body) ==
  LET present == /\ body.email # None /\ body.displayName # None
                 /\ body.password # None /\ body.confirmPassword # None
      ok == /\ present
            /\ Len(body.email) >= 1 /\ isEmail(body.email) /\ Len(body.email) <= MaxEmailLength
            /\ displayNameOk(body.displayName)
            /\ Len(body.password) >= MinPasswordLength
            /\ Len(body.password) <= MaxPasswordLength
            /\ Len(body.confirmPassword) >= 1
            /\ body.password = body.confirmPassword
            /\ validatePasswordStrength(body.password).isValid
  IN [success |-> ok,
      data |-> IF ok
               THEN [email |-> body.email, displayName |-> trim(body.displayName),
                     password |-> body.password]
               ELSE [email |-> None, displayName |-> None, password |-> None]]

\* profileUpdateSchema.safeParse(body): every field optional
profileUpdateSchema(body) ==
  LET ok == /\ body.displayName # None => displayNameOk(body.displayName)
            /\ body.username # None => usernameOk(body.username)
            /\ body.bio # None => Len(body.bio) <= MaxBioLength
            /\ body.status # Absent => body.status \in StatusEnum
  IN [success |-> ok,
      data |-> IF ok
               THEN [displayName |-> IF body.displayName = None THEN None
                                     ELSE trim(body.displayName),
                     username |-> IF body.username = None THEN None ELSE trim(body.username),
                     bio |-> IF body.bio = None THEN None ELSE trim(body.bio),
                     status |-> body.status]
               ELSE [displayName |-> None, username |-> None, bio |-> None,
                     status |-> Absent]]

\* passwordChangeSchema.safeParse(data): currentPassword is a required string
passwordChangeSchema(data) ==
  /\ data.currentPassword # None
  /\ Len(data.currentPassword) >= 1
  /\ data.newPassword # None
  /\ Len(data.newPassword) >= MinPasswordLength
  /\ Len(data.newPassword) <= MaxPasswordLength
  /\ data.confirmNewPassword # None
  /\ Len(data.confirmNewPassword) >= 1
  /\ data.newPassword = data.confirmNewPassword
  /\ validatePasswordStrength(data.newPassword).isValid

----------------------------------------------------------------------------
(* prisma: the user, session and account tables *)

NoId == 0
AliceId == 1
BobId == 2

\* a timestamp set before the first instant of the model
Earlier == -1

AliceEmail == <<"a", "@", "b", ".", "c", "o", "m">>
BobEmail == <<"c", "@", "d", ".", "c", "o", "m">>
AlicePassword == <<"T", "r", "0", "u", "b", "4", "d", "o", "r">>

aliceRow ==
  [email |-> AliceEmail, username |-> <<"a", "l", "i", "c", "e">>, displayName |-> <<"A", "l", "i", "c", "e">>,
   password |-> hashPassword(AlicePassword), bio |-> None, status |-> "OFFLINE",
   isActive |-> TRUE, lastSeen |-> Earlier, updatedAt |-> Earlier]

\* an account deactivated earlier
bobRow ==
  [email |-> BobEmail, username |-> <<"b", "o", "b">>, displayName |-> <<"B", "o", "b">>,
   password |-> hashPassword(AlicePassword), bio |-> None, status |-> "OFFLINE",
   isActive |-> FALSE, lastSeen |-> Earlier, updatedAt |-> Earlier]

\* the lookup by e-mail without the isActive filter
findUniqueByEmail_anyRow(table, email) ==
  LET hits == {id \in DOMAIN table : table[id].email = email}
  IN IF hits = {} THEN NoId ELSE CHOOSE id \in hits : TRUE

\* prisma.user.findUnique({ where: { email, isActive: true } })
findUniqueByEmail(table, email) ==
  LET hits == {id \in DOMAIN table : table[id].email = email /\ table[id].isActive}
  IN IF hits = {} THEN NoId ELSE CHOOSE id \in hits : TRUE

\* prisma.user.findUnique({ where: { id, isActive: true } })
findUniqueById(table, id) ==
  IF id \in DOMAIN table /\ table[id].isActive THEN id ELSE NoId

\* the lookup by username that does not leave the caller's own row out
findFirstByUsername_ownRowToo(table, username, id) ==
  {other \in DOMAIN table : table[other].username = username}

\* prisma.user.findFirst({ where: { username, id: { not: id } } }): the rows it may return
findFirstByUsername(table, username, id) ==
  {other \in DOMAIN table : table[other].username = username /\ other # id}

\* the unique indexes on user.email and user.username: would writing `row`
\* as the row `id` break one
uniqueViolation(table, id, row) ==
  \E other \in DOMAIN table :
    /\ other # id
    /\ (table[other].email = row.email \/ table[other].username = row.username)

\* prisma.user.update({ where: { id }, data }): the table after, and whether it throws
userUpdate(table, id, data) ==
  LET row == [f \in DOMAIN table[id] |-> IF f \in DOMAIN data THEN data[f] ELSE table[id][f]]
  IN IF id \notin DOMAIN table \/ uniqueViolation(table, id, row)
     THEN [throws |-> TRUE, table |-> table]
     ELSE [throws |-> FALSE, table |-> [table EXCEPT ![id] = row]]

----------------------------------------------------------------------------
(* pages/api/auth/[...nextauth].ts: the credentials provider and the callbacks *)

NoUser == [id |-> NoId]

NoToken ==
  [sub |-> NoId, username |-> None, bio |-> None, status |-> Absent]

\* authorize without the password check of lines 39-49
authorizeLookup_noPasswordCheck(credentials, table, throws) ==
  IF ~truthy(credentials.email) \/ ~truthy(credentials.password) THEN NoUser
  ELSE IF ~signInSchema(credentials) THEN NoUser
  ELSE IF throws THEN NoUser
  ELSE LET id == findUniqueByEmail(table, trim(toLowerCase(credentials.email)))
       IN IF id = NoId THEN NoUser
          ELSE [id |-> id, email |-> table[id].email, displayName |-> table[id].displayName,
                username |-> table[id].username, bio |-> table[id].bio,
                status |-> table[id].status]

\* lines 18-49: the credentials checked against the table; `throws`: the
\* persistence lookup fails.  The user found, or NoUser where authorize returns null.
authorizeLookup(credentials, table, throws) ==
  IF ~truthy(credentials.email) \/ ~truthy(credentials.password) THEN NoUser
  ELSE IF ~signInSchema(credentials) THEN NoUser
  ELSE IF throws THEN NoUser
  ELSE LET id == findUniqueByEmail(table, trim(toLowerCase(credentials.email)))
       IN IF id = NoId THEN NoUser
          ELSE IF ~validatePassword(credentials.password, table[id].password) THEN NoUser
          ELSE [id |-> id, email |-> table[id].email, displayName |-> table[id].displayName,
                username |-> table[id].username, bio |-> table[id].bio,
                status |-> table[id].status]

\* does authorize reach the persistence lookup
authorizeReads(credentials) ==
  /\ truthy(credentials.email) /\ truthy(credentials.password)
  /\ signInSchema(credentials)

\* lines 60-68: the object authorize returns, from the row read at line 30
authorizeResult(user) ==
  [id |-> user.id, email |-> user.email, name |-> user.displayName,
   username |-> user.username, bio |-> user.bio, status |-> user.status]

\* the token NextAuth makes for a sign-in before callbacks.jwt sees it
defaultToken(user) == [NoToken EXCEPT !.sub = user.id]

\* callbacks.jwt without the test of line 91
jwt_withoutUserTest(token, user) ==
  IF user # NoUser
  THEN [token EXCEPT !.username = user.username, !.bio = user.bio,
                     !.status = user.status]
  ELSE [token EXCEPT !.username = None, !.bio = None, !.status = Absent]

\* callbacks.jwt, lines 89-98; user is NoUser on every call but that of a sign-in
jwt(token, user) ==
  IF user # NoUser
  THEN [token EXCEPT !.username = user.username, !.bio = user.bio,
                     !.status = user.status]
  ELSE token

\* callbacks.session, lines 99-109: session.user of a token
sessionUser(token) ==
  [id |-> token.sub, username |-> token.username, bio |-> token.bio,
   status |-> token.status]

\* getServerSession that answers a request without a cookie with the session
\* of the first user
getServerSession_firstUser(token) ==
  LET user == sessionUser(jwt(token, NoUser))
  IN [user EXCEPT !.id = IF @ = NoId THEN AliceId ELSE @]

\* getServerSession(req, res, authOptions): the cookie's token goes through
\* callbacks.jwt without a user, then through callbacks.session
getServerSession(token) == sessionUser(jwt(token, NoUser))

----------------------------------------------------------------------------
(* The state before any request *)

EmptyMap == [k \in {} |-> 0]

NoCheck == [key |-> None]

\* every key a request of the model can be counted under
Keys ==
  {getDefaultKey(f, a, None, RegisterUrl) : f \in ForwardedHeaders, a \in RemoteAddresses}

NotSeen == [resetTime |-> -1, checks |-> 0, admitted |-> 0]

Slots == {1}

Idle == [pc |-> "idle"]

\* the clock's sample instants under the limiter in use
ClockTimes == Times(limiter.windowMs)

\* a second `new Date()` in the same synchronous run: the same ms or the next
Later(t) == {t2 \in ClockTimes : t <= t2 /\ t2 <= t + 1}

\* what one check adds to the per-key observation
observe(s, r) ==
  [k \in DOMAIN s |->
     IF k # r.key THEN s[k]
     ELSE IF s[k].resetTime = r.result.resetTime
          THEN [s[k] EXCEPT !.checks = @ + 1,
                            !.admitted = @ + (IF r.result.success THEN 1 ELSE 0)]
          ELSE [resetTime |-> r.result.resetTime, checks |-> 1,
                admitted |-> IF r.result.success THEN 1 ELSE 0]]

\* the record of one call of the limiter
checkRecord(key, t, store, r) ==
  [key |-> key, at |-> t, found |-> key \in DOMAIN store,
   before |-> IF key \in DOMAIN store THEN store[key] ELSE [count |-> 0, resetTime |-> -1, windowMs |-> 0],
   entry |-> r.entry, result |-> r.result, retryAfter |-> r.retryAfter]

\* no entry's count passes the model's cap
canCheck(key) ==
  key \in DOMAIN rateLimitStore =>
    (rateLimitStore[key].count < MaxCount \/ now > rateLimitStore[key].resetTime)

InitLimiter ==
  /\ now = 0
  /\ nodeEnv = "development"
  /\ rateLimitStore = EmptyMap
  /\ users = EmptyMap
  /\ sessions = {}
  /\ accounts = {}
  /\ tokens = {}
  /\ reqs = [s \in Slots |-> Idle]
  /\ limiter \in {authConfig, passwordResetConfig}
  /\ lastCheck = NoCheck
  /\ seen = [k \in Keys |-> NotSeen]
  /\ deactivated = {}

\* time passes
Tick ==
  /\ \E t \in ClockTimes : t > now /\ now' = t
  /\ UNCHANGED <<nodeEnv, rateLimitStore, users, sessions, accounts, tokens, reqs,
                 limiter, lastCheck, seen, deactivated>>

\* one call of the limiter, on a response whose status nobody has set
RateLimitCheck ==
  \E f \in {h \in ForwardedHeaders : h.kind = "string"} :
    LET key == getDefaultKey(f, None, None, RegisterUrl) IN
    /\ canCheck(key)
    /\ \E t2 \in Later(now) :
         LET r == rateLimit(limiter, key, DefaultStatusCode, now, t2, rateLimitStore)
             rec == checkRecord(key, now, rateLimitStore, r) IN
         /\ rateLimitStore' = r.store
         /\ now' = t2
         /\ lastCheck' = rec
         /\ seen' = observe(seen, rec)
    /\ UNCHANGED <<nodeEnv, users, sessions, accounts, tokens, reqs, limiter, deactivated>>

NextLimiter == Tick \/ RateLimitCheck

SpecLimiter == InitLimiter /\ [][NextLimiter]_vars

----------------------------------------------------------------------------
(* C1, C2: the limiter's window *)

\* C1: for a fixed key and a limiter with maxRequests = N (no skip flag), the
\* checks answered within one window (one resetTime) succeed up to the N-th,
\* and the (N+1)-th and later ones fail.
C1_NthCheckDecides ==
  lastCheck # NoCheck =>
    lastCheck.result.success = (seen[lastCheck.key].checks <= limiter.maxRequests)

C1_Witness ==
  /\ lastCheck # NoCheck
  /\ seen[lastCheck.key].checks = limiter.maxRequests + 1
  /\ ~lastCheck.result.success

\* C2 as stated: a check made when now >= the stored resetTime starts a fresh entry.
C2_ResetAtOrAfterResetTime ==
  lastCheck # NoCheck =>
    IF ~lastCheck.found \/ lastCheck.at >= lastCheck.before.resetTime
    THEN /\ lastCheck.entry.resetTime = lastCheck.at + limiter.windowMs
         /\ lastCheck.entry.count = 1
    ELSE lastCheck.result.resetTime = lastCheck.before.resetTime

\* C2 amended: a check finds no entry, or one whose resetTime is strictly before
\* now, and then counts on a fresh entry (count 0, resetTime = now + windowMs);
\* otherwise, also at now = resetTime, it counts on the stored entry and keeps
\* its resetTime.
C2_ResetAfterResetTime ==
  lastCheck # NoCheck =>
    IF ~lastCheck.found \/ lastCheck.at > lastCheck.before.resetTime
    THEN /\ lastCheck.entry.resetTime = lastCheck.at + limiter.windowMs
         /\ lastCheck.entry.count = 1
    ELSE /\ lastCheck.result.resetTime = lastCheck.before.resetTime
         /\ lastCheck.entry.count = lastCheck.before.count + 1

C2_Witness ==
  /\ lastCheck # NoCheck
  /\ lastCheck.found
  /\ lastCheck.at = lastCheck.before.resetTime
  /\ lastCheck.entry.count = lastCheck.before.count + 1

----------------------------------------------------------------------------
(* Requests and responses *)

NoRes == [status |-> 0, error |-> "", field |-> Absent]

Res(status, error, field) == [status |-> status, error |-> error, field |-> field]

\* a handler waiting on persistence
Waiting(pc, op, uid, read, wrote, note, loc) ==
  [pc |-> pc, op |-> op, uid |-> uid, res |-> NoRes, read |-> read, wrote |-> wrote,
   note |-> note, loc |-> loc, failed |-> FALSE]

\* a handler that has answered
Done(op, uid, res, read, wrote, note) ==
  [pc |-> "done", op |-> op, uid |-> uid, res |-> res, read |-> read, wrote |-> wrote,
   note |-> note, loc |-> <<>>, failed |-> FALSE]

\* the handler answers from its catch block: a call of persistence has raised
Thrown(answer) == [answer EXCEPT !.failed = TRUE]

\* the cookie the browser of user c sends; NoId: a client without a cookie
cookie(c) == IF c \in DOMAIN tokens THEN tokens[c] ELSE NoToken

Clients == {NoId} \cup DOMAIN users

\* the state of the session's user row when the request arrives
rowNote(id) ==
  IF id \notin DOMAIN users THEN "no row"
  ELSE IF users[id].isActive THEN "active" ELSE "inactive"

\* the response is delivered and the slot is free again
Reply(s) ==
  /\ reqs[s].pc = "done"
  /\ reqs' = [reqs EXCEPT ![s] = Idle]
  /\ UNCHANGED <<now, nodeEnv, rateLimitStore, users, sessions, accounts, tokens,
                 limiter, lastCheck, seen, deactivated>>

----------------------------------------------------------------------------
(* The credentials sign-in: authorize, then callbacks.jwt *)

SignInEmails == {AliceEmail, <<"A", "@", "B", ".", "c", "o", "m">>, BobEmail, <<"e", "@", "d", ".", "c", "o", "m">>, <<"a", "b">>, <<>>}
SignInPasswords == {AlicePassword, <<"W", "r", "0", "n", "g", "P", "a", "s", "s">>}

\* which case a sign-in falls in, told from the credentials and the table
signInCase(credentials, table, throws) ==
  LET email == trim(toLowerCase(credentials.email))
      rows == {id \in DOMAIN table : table[id].email = email}
  IN IF ~authorizeReads(credentials) THEN "malformed"
     ELSE IF throws THEN "lookup throws"
     ELSE IF rows = {} THEN "no user"
     ELSE IF \A id \in rows : ~table[id].isActive THEN "inactive"
     ELSE IF \A id \in rows : table[id].password.of # credentials.password
          THEN "wrong password"
          ELSE "valid"

\* authorize up to the password check (lines 18-49); the lookup may throw
SignIn(s) ==
  /\ reqs[s].pc = "idle"
  /\ \E email \in SignInEmails, password \in SignInPasswords, throws \in BOOLEAN :
       LET credentials == [email |-> email, password |-> password]
           user == authorizeLookup(credentials, users, throws)
           note == signInCase(credentials, users, throws)
           read == authorizeReads(credentials)
       IN reqs' = [reqs EXCEPT ![s] =
                     IF user = NoUser
                     THEN [Done("signin", NoId, [status |-> 401, user |-> NoUser],
                                read, FALSE, note)
                             EXCEPT !.loc = [credentials |-> credentials],
                                    !.failed = (note = "lookup throws")]
                     ELSE Waiting("authUpdate", "signin", user.id, read, FALSE, note,
                                  [credentials |-> credentials, user |-> user])]
  /\ UNCHANGED <<now, nodeEnv, rateLimitStore, users, sessions, accounts, tokens,
                 limiter, lastCheck, seen, deactivated>>

\* authorize from the update on (lines 51-72), then callbacks.jwt and the cookie
SignInUpdate(s) ==
  /\ reqs[s].pc = "authUpdate"
  /\ \E throws \in BOOLEAN :
       LET user == reqs[s].loc.user
           up == userUpdate(users, user.id, [lastSeen |-> now, status |-> "ONLINE"])
       IN IF throws \/ up.throws
          THEN /\ reqs' = [reqs EXCEPT ![s] =
                             [Done("signin", NoId, [status |-> 401, user |-> NoUser],
                                   TRUE, FALSE, "update throws")
                                EXCEPT !.loc = [credentials |-> reqs[s].loc.credentials],
                                       !.failed = TRUE]]
               /\ UNCHANGED <<users, tokens>>
          ELSE /\ users' = up.table
               /\ tokens' = [c \in DOMAIN tokens \cup {user.id} |->
                               IF c = user.id
                               THEN jwt(defaultToken(authorizeResult(user)),
                                        authorizeResult(user))
                               ELSE tokens[c]]
               /\ reqs' = [reqs EXCEPT ![s] =
                             [Done("signin", user.id,
                                   [status |-> 200, user |-> authorizeResult(user)],
                                   TRUE, TRUE, reqs[s].note)
                                EXCEPT !.loc = [credentials |-> reqs[s].loc.credentials]]]
  /\ UNCHANGED <<now, nodeEnv, rateLimitStore, sessions, accounts, limiter, lastCheck,
                 seen, deactivated>>

----------------------------------------------------------------------------
(* pages/api/user/profile.ts: GET, PATCH and DELETE /user/profile *)

NoBody == [displayName |-> None, username |-> None, bio |-> None, status |-> Absent]

\* the bodies PATCH /user/profile is sent with
PatchBodies ==
  { [NoBody EXCEPT !.status = "IDLE"],
    [NoBody EXCEPT !.bio = <<" ", "h", "i">>],
    [NoBody EXCEPT !.username = <<"B", "o", "b">>, !.status = "IDLE"],
    [NoBody EXCEPT !.username = <<"a", "l">>],
    [NoBody EXCEPT !.username = <<"c", "a", "r", "o", "l">>],
    [NoBody EXCEPT !.username = <<"A", "l", "i", "c", "e">>, !.displayName = <<"B", "O", "B">>] }

\* the passwords DELETE /user/profile and POST /auth/verify-password are sent with
BodyPasswords == {None, AlicePassword, <<"W", "r", "0", "n", "g", "P", "a", "s", "s">>}

\* updateData with the status always in it
updateDataOf_alwaysStatus(data, t) ==
  LET fields == {"updatedAt", "status"}
                \cup (IF data.displayName # None THEN {"displayName"} ELSE {})
                \cup (IF data.username # None THEN {"username"} ELSE {})
                \cup (IF data.bio # None THEN {"bio"} ELSE {})
  IN [f \in fields |->
        CASE f = "displayName" -> sanitizeInput(data.displayName)
          [] f = "username" -> toLowerCase(sanitizeInput(data.username))
          [] f = "bio" -> sanitizeInput(data.bio)
          [] f = "status" -> IF data.status # Absent THEN data.status ELSE "ONLINE"
          [] f = "updatedAt" -> t]

\* lines 104-141: updateData, from the parsed body
updateDataOf(data, t) ==
  LET fields == {"updatedAt"}
                \cup (IF data.displayName # None THEN {"displayName"} ELSE {})
                \cup (IF data.username # None THEN {"username"} ELSE {})
                \cup (IF data.bio # None THEN {"bio"} ELSE {})
                \cup (IF data.status # Absent THEN {"status"} ELSE {})
  IN [f \in fields |->
        CASE f = "displayName" -> sanitizeInput(data.displayName)
          [] f = "username" -> toLowerCase(sanitizeInput(data.username))
          [] f = "bio" -> sanitizeInput(data.bio)
          [] f = "status" -> data.status
          [] f = "updatedAt" -> t]

\* lines 89-141 for each body of the model: validation and sanitisation depend
\* on the body alone, but for the updatedAt of line 141
parsedPatch ==
  [body \in PatchBodies |->
     LET validation == profileUpdateSchema(body)
     IN [success |-> validation.success,
         data |-> validation.data,
         update |-> updateDataOf(validation.data, Earlier)]]

\* handlePatch has answered the request with body `body`
PatchDone(uid, res, read, wrote, note, body) ==
  [Done("patch", uid, res, read, wrote, note) EXCEPT !.loc = [body |-> body]]

\* lines 143-175 of handlePatch: the update and the answer
patchWrite(s, uid, body, data, throws, read, note) ==
  LET up == userUpdate(users, uid, data) IN
  IF throws \/ up.throws
  THEN /\ reqs' = [reqs EXCEPT ![s] =
                     Thrown(PatchDone(uid, Res(500, "Internal server error", Absent),
                               read, FALSE, note, body))]
       /\ UNCHANGED users
  ELSE /\ users' = up.table
       /\ reqs' = [reqs EXCEPT ![s] =
                     PatchDone(uid, Res(200, "", Absent), read, TRUE, note, body)]

\* handler (lines 8-34) and the handlers it dispatches to, up to and including
\* their first call of persistence
ProfileRequest(s) ==
  /\ reqs[s].pc = "idle"
  /\ \E c \in Clients, method \in {"GET", "PATCH", "DELETE", "POST"},
        body \in PatchBodies, password \in BodyPasswords, throws \in BOOLEAN :
       LET uid == getServerSession(cookie(c)).id
           note == rowNote(uid)
       IN
       IF uid = NoId
       THEN /\ reqs' = [reqs EXCEPT ![s] =
                          Done("profile", NoId, Res(401, "Unauthorized", Absent),
                               FALSE, FALSE, "no session")]
            /\ UNCHANGED users
       ELSE IF method = "GET"
       THEN /\ reqs' = [reqs EXCEPT ![s] =
                          IF throws
                          THEN Thrown(Done("get", uid, Res(500, "Internal server error", Absent),
                                    TRUE, FALSE, note))
                          ELSE Done("get", uid,
                                    IF findUniqueById(users, uid) = NoId
                                    THEN Res(404, "User not found", Absent)
                                    ELSE Res(200, "", Absent),
                                    TRUE, FALSE, note)]
            /\ UNCHANGED users
       ELSE IF method = "PATCH"
       THEN LET validation == parsedPatch[body]
                data == [validation.update EXCEPT !.updatedAt = now]
            IN IF ~validation.success
               THEN /\ reqs' = [reqs EXCEPT ![s] =
                                  PatchDone(uid, Res(400, "Validation failed", Absent),
                                            FALSE, FALSE, note, body)]
                    /\ UNCHANGED users
               ELSE IF validation.data.username # None
               THEN /\ reqs' = [reqs EXCEPT ![s] =
                          IF throws
                          THEN Thrown(PatchDone(uid, Res(500, "Internal server error", Absent),
                                         TRUE, FALSE, note, body))
                          ELSE IF findFirstByUsername(users, data.username, uid) # {}
                          THEN PatchDone(uid,
                                         Res(400, "Username is already taken", "username"),
                                         TRUE, FALSE, note, body)
                          ELSE Waiting("patchUpdate", "patch", uid, TRUE, FALSE, note,
                                       [data |-> data, body |-> body])]
                    /\ UNCHANGED users
               ELSE patchWrite(s, uid, body, data, throws, FALSE, note)
       ELSE IF method = "DELETE"
       THEN /\ reqs' = [reqs EXCEPT ![s] =
                          IF ~truthy(password)
                          THEN Done("delete", uid, Res(400, "Password is required", Absent),
                                    FALSE, FALSE, note)
                          ELSE IF throws
                          THEN Thrown(Done("delete", uid, Res(500, "Internal server error", Absent),
                                    TRUE, FALSE, note))
                          ELSE IF findUniqueById(users, uid) = NoId
                          THEN Done("delete", uid, Res(404, "User not found", Absent),
                                    TRUE, FALSE, note)
                          ELSE IF ~validatePassword(password, users[uid].password)
                          THEN Done("delete", uid, Res(400, "Invalid password", Absent),
                                    TRUE, FALSE, note)
                          ELSE Waiting("deleteUpdate", "delete", uid, TRUE, FALSE, note, <<>>)]
            /\ UNCHANGED users
       ELSE /\ reqs' = [reqs EXCEPT ![s] =
                          Done("profile", uid, Res(405, "Method not allowed", Absent),
                               FALSE, FALSE, note)]
            /\ UNCHANGED users
  /\ UNCHANGED <<now, nodeEnv, rateLimitStore, sessions, accounts, tokens, limiter,
                 lastCheck, seen, deactivated>>

\* handlePatch after the username probe: lines 129-175
PatchUpdate(s) ==
  /\ reqs[s].pc = "patchUpdate"
  /\ \E throws \in BOOLEAN :
       patchWrite(s, reqs[s].uid, reqs[s].loc.body,
                  [reqs[s].loc.data EXCEPT !.updatedAt = now], throws, TRUE, reqs[s].note)
  /\ UNCHANGED <<now, nodeEnv, rateLimitStore, sessions, accounts, tokens, limiter,
                 lastCheck, seen, deactivated>>

\* handleDelete, lines 220-230: the soft delete
DeleteUpdate(s) ==
  /\ reqs[s].pc = "deleteUpdate"
  /\ \E throws \in BOOLEAN :
       LET up == userUpdate(users, reqs[s].uid,
                            [isActive |-> FALSE, status |-> "OFFLINE", updatedAt |-> now])
       IN IF throws \/ up.throws
          THEN /\ reqs' = [reqs EXCEPT ![s] =
                             Thrown(Done("delete", reqs[s].uid,
                                  Res(500, "Internal server error", Absent),
                                  TRUE, FALSE, reqs[s].note))]
               /\ UNCHANGED users
          ELSE /\ users' = up.table
               /\ reqs' = [reqs EXCEPT ![s] = [@ EXCEPT !.pc = "deleteSessions",
                                                       !.wrote = TRUE]]
  /\ UNCHANGED <<now, nodeEnv, rateLimitStore, sessions, accounts, tokens, limiter,
                 lastCheck, seen, deactivated>>

\* handleDelete, lines 233-237: prisma.session.deleteMany
DeleteSessions(s) ==
  /\ reqs[s].pc = "deleteSessions"
  /\ \E throws \in BOOLEAN :
       IF throws
       THEN /\ reqs' = [reqs EXCEPT ![s] =
                          Thrown(Done("delete", reqs[s].uid,
                               Res(500, "Internal server error", Absent),
                               TRUE, TRUE, reqs[s].note))]
            /\ UNCHANGED sessions
       ELSE /\ sessions' = sessions \ {reqs[s].uid}
            /\ reqs' = [reqs EXCEPT ![s] = [@ EXCEPT !.pc = "deleteAccounts"]]
  /\ UNCHANGED <<now, nodeEnv, rateLimitStore, users, accounts, tokens, limiter,
                 lastCheck, seen, deactivated>>

\* handleDelete, lines 239-248: prisma.account.deleteMany and the answer
DeleteAccounts(s) ==
  /\ reqs[s].pc = "deleteAccounts"
  /\ \E throws \in BOOLEAN :
       IF throws
       THEN /\ reqs' = [reqs EXCEPT ![s] =
                          Thrown(Done("delete", reqs[s].uid,
                               Res(500, "Internal server error", Absent),
                               TRUE, TRUE, reqs[s].note))]
            /\ UNCHANGED <<accounts, deactivated>>
       ELSE /\ accounts' = accounts \ {reqs[s].uid}
            /\ deactivated' = deactivated \cup {reqs[s].uid}
            /\ reqs' = [reqs EXCEPT ![s] =
                          Done("delete", reqs[s].uid, Res(200, "", Absent),
                               TRUE, TRUE, reqs[s].note)]
  /\ UNCHANGED <<now, nodeEnv, rateLimitStore, users, sessions, tokens, limiter,
                 lastCheck, seen>>

----------------------------------------------------------------------------
(* pages/api/user/profile.ts, second handler: PATCH /user/password *)

StrongNewPassword == <<"N", "3", "w", "S", "e", "c", "r", "e", "t">>
NewPasswords == {None, StrongNewPassword, <<"s", "h", "o", "r", "t">>}

\* which kind of newPassword the body carries
passwordNote(newPassword) ==
  IF ~truthy(newPassword) THEN "no password"
  ELSE IF validatePasswordStrength(newPassword).isValid THEN "strong password"
  ELSE "weak password"

\* lines 265-353.  Nothing awaits persistence before the schema has accepted the
\* body, and the schema is given no currentPassword.
ChangePassword(s) ==
  /\ reqs[s].pc = "idle"
  /\ \E c \in Clients, method \in {"PATCH", "GET"}, newPassword \in NewPasswords,
        throws \in BOOLEAN :
       LET uid == getServerSession(cookie(c)).id
           note == passwordNote(newPassword)
           validation == passwordChangeSchema([currentPassword |-> None,
                                               newPassword |-> newPassword,
                                               confirmNewPassword |-> newPassword])
           up == userUpdate(users, uid,
                            [password |-> hashPassword(newPassword), updatedAt |-> now])
       IN
       IF method # "PATCH"
       THEN /\ reqs' = [reqs EXCEPT ![s] =
                          Done("password", NoId, Res(405, "Method not allowed", Absent),
                               FALSE, FALSE, note)]
            /\ UNCHANGED users
       ELSE IF uid = NoId
       THEN /\ reqs' = [reqs EXCEPT ![s] =
                          Done("password", NoId, Res(401, "Unauthorized", Absent),
                               FALSE, FALSE, note)]
            /\ UNCHANGED users
       ELSE IF ~truthy(newPassword)
       THEN /\ reqs' = [reqs EXCEPT ![s] =
                          Done("password", uid, Res(400, "New password is required", Absent),
                               FALSE, FALSE, note)]
            /\ UNCHANGED users
       ELSE IF ~validation
       THEN /\ reqs' = [reqs EXCEPT ![s] =
                          Done("password", uid,
                               Res(400, "Password does not meet requirements", Absent),
                               FALSE, FALSE, note)]
            /\ UNCHANGED users
       ELSE IF throws \/ (findUniqueById(users, uid) # NoId /\ up.throws)
       THEN /\ reqs' = [reqs EXCEPT ![s] =
                          Thrown(Done("password", uid, Res(500, "Internal server error", Absent),
                               TRUE, FALSE, note))]
            /\ UNCHANGED users
       ELSE IF findUniqueById(users, uid) = NoId
       THEN /\ reqs' = [reqs EXCEPT ![s] =
                          Done("password", uid, Res(404, "User not found", Absent),
                               TRUE, FALSE, note)]
            /\ UNCHANGED users
       ELSE /\ users' = up.table
            /\ reqs' = [reqs EXCEPT ![s] =
                          Done("password", uid, Res(200, "", Absent), TRUE, TRUE, note)]
  /\ UNCHANGED <<now, nodeEnv, rateLimitStore, sessions, accounts, tokens, limiter,
                 lastCheck, seen, deactivated>>

----------------------------------------------------------------------------
(* pages/api/auth/verify-password.ts: POST /auth/verify-password *)

VerifyPassword(s) ==
  /\ reqs[s].pc = "idle"
  /\ \E c \in Clients, method \in {"POST", "GET"}, password \in BodyPasswords,
        throws \in BOOLEAN :
       LET uid == getServerSession(cookie(c)).id
           note == rowNote(uid)
       IN reqs' = [reqs EXCEPT ![s] =
            IF method # "POST"
            THEN Done("verify", NoId, Res(405, "Method not allowed", Absent),
                      FALSE, FALSE, note)
            ELSE IF uid = NoId
            THEN Done("verify", NoId, Res(401, "Unauthorized", Absent), FALSE, FALSE, note)
            ELSE IF ~truthy(password)
            THEN Done("verify", uid, Res(400, "Password is required", Absent),
                      FALSE, FALSE, note)
            ELSE IF throws
            THEN Thrown(Done("verify", uid, Res(500, "Internal server error", Absent),
                      TRUE, FALSE, note))
            ELSE IF findUniqueById(users, uid) = NoId
            THEN Done("verify", uid, Res(404, "User not found", Absent), TRUE, FALSE, note)
            ELSE IF ~validatePassword(password, users[uid].password)
            THEN Done("verify", uid, Res(400, "Invalid password", Absent), TRUE, FALSE, note)
            ELSE Done("verify", uid, Res(200, "", Absent), TRUE, FALSE, note)]
  /\ UNCHANGED <<now, nodeEnv, rateLimitStore, users, sessions, accounts, tokens,
                 limiter, lastCheck, seen, deactivated>>

----------------------------------------------------------------------------
(* The account handlers, one request at a time, on a table of two accounts *)

InitAccount ==
  /\ now = 0
  /\ nodeEnv = "development"
  /\ rateLimitStore = EmptyMap
  /\ users = [id \in {AliceId, BobId} |-> IF id = AliceId THEN aliceRow ELSE bobRow]
  /\ sessions \in {{}, {AliceId, BobId}}
  /\ accounts \in {{}, {AliceId, BobId}}
  /\ tokens = EmptyMap
  /\ reqs = [s \in Slots |-> Idle]
  /\ limiter = authConfig
  /\ lastCheck = NoCheck
  /\ seen = [k \in Keys |-> NotSeen]
  /\ deactivated = {}

NextAccount ==
  \/ \E s \in DOMAIN reqs : SignIn(s)
  \/ \E s \in DOMAIN reqs : SignInUpdate(s)
  \/ \E s \in DOMAIN reqs : ProfileRequest(s)
  \/ \E s \in DOMAIN reqs : PatchUpdate(s)
  \/ \E s \in DOMAIN reqs : DeleteUpdate(s)
  \/ \E s \in DOMAIN reqs : DeleteSessions(s)
  \/ \E s \in DOMAIN reqs : DeleteAccounts(s)
  \/ \E s \in DOMAIN reqs : ChangePassword(s)
  \/ \E s \in DOMAIN reqs : VerifyPassword(s)
  \/ \E s \in DOMAIN reqs : Reply(s)

SpecAccount == InitAccount /\ [][NextAccount]_vars

----------------------------------------------------------------------------
(* C3, C4, C5, C10: sign-in, deactivation, password change *)

SignInFailures == {"no user", "inactive", "wrong password", "lookup throws"}

NullOutcome == [status |-> 401, user |-> NoUser]

\* C3: a sign-in whose email matches no user, or only an inactive user, or whose
\* password does not validate, or whose lookup throws, ends in one and the same
\* outcome (authorize returns null), and the step that ends it leaves the user
\* table and the cookies as they were.
C3_FailuresAlike ==
  [][\A s \in DOMAIN reqs :
       (/\ reqs[s].pc # "done"
        /\ reqs'[s].pc = "done"
        /\ reqs'[s].op = "signin"
        /\ reqs'[s].note \in SignInFailures)
       => /\ reqs'[s].res = NullOutcome
          /\ users' = users
          /\ tokens' = tokens]_vars

C3_Witness ==
  \E s \in DOMAIN reqs :
    /\ reqs[s].pc = "done"
    /\ reqs[s].op = "signin"
    /\ reqs[s].note = "wrong password"
    /\ reqs[s].res = NullOutcome
    /\ users[AliceId].isActive

\* the sign-in steps of the user whose row has the e-mail of the credentials
signsInAs(s, u) ==
  /\ reqs[s].pc = "idle"
  /\ reqs'[s].pc # "idle"
  /\ reqs'[s].op = "signin"
  /\ users[u].email = trim(toLowerCase(reqs'[s].loc.credentials.email))

\* C4: the step in which DELETE /user/profile answers 200 leaves the row of its
\* user inactive with status OFFLINE and the user without a session row; the
\* row stays inactive, and every later sign-in with the e-mail of that row ends
\* as one for an e-mail of no row does: authorize returns null, nothing written.
C4_DeactivatedCannotSignIn ==
  [][\A s \in DOMAIN reqs :
       /\ (/\ reqs[s].pc = "deleteAccounts"
           /\ reqs'[s].pc = "done"
           /\ reqs'[s].res.status = 200)
          => /\ ~users'[reqs'[s].uid].isActive
             /\ users'[reqs'[s].uid].status = "OFFLINE"
             /\ reqs'[s].uid \notin sessions'
       /\ \A u \in deactivated :
            /\ ~users'[u].isActive
            /\ signsInAs(s, u)
               => /\ reqs'[s].pc = "done"
                  /\ reqs'[s].res = NullOutcome
                  /\ ~reqs'[s].wrote
                  /\ users' = users
                  /\ tokens' = tokens]_vars

C4_Witness ==
  \E s \in DOMAIN reqs :
    /\ AliceId \in deactivated
    /\ reqs[s].pc = "done"
    /\ reqs[s].op = "signin"
    /\ reqs[s].loc.credentials = [email |-> AliceEmail, password |-> AlicePassword]
    /\ reqs[s].res = NullOutcome

\* C5 as stated: a request on an authenticated endpoint that arrives after the
\* deactivation, with the session of the deactivated user, is refused (no 2xx)
\* and writes nothing.
C5_DeactivatedSessionRefused ==
  \A s \in DOMAIN reqs :
    (/\ reqs[s].pc = "done"
     /\ reqs[s].op \in {"get", "patch", "delete", "password", "verify", "profile"}
     /\ reqs[s].uid \in deactivated
     /\ reqs[s].note = "inactive")
    => /\ ~(reqs[s].res.status >= 200 /\ reqs[s].res.status < 300)
       /\ ~reqs[s].wrote

\* C10 as stated: PATCH /user/password of an authenticated, active user with a
\* newPassword that meets the strength rules answers 200 and the new password
\* validates against the stored hash; one that breaks the rules answers 400.
C10_StrongPasswordAccepted ==
  \A s \in DOMAIN reqs :
    (/\ reqs[s].pc = "done"
     /\ reqs[s].op = "password"
     /\ reqs[s].uid # NoId
     /\ users[reqs[s].uid].isActive
     /\ reqs[s].res.status # 500)
    => /\ reqs[s].note = "strong password"
            => /\ reqs[s].res.status = 200
               /\ validatePassword(StrongNewPassword, users[reqs[s].uid].password)
       /\ reqs[s].note = "weak password" => reqs[s].res.status = 400

----------------------------------------------------------------------------
(* lib/security.ts and lib/auth.ts: what POST /auth/register calls *)

ProductionOrigin == <<"h", "t", "t", "p", "s", ":", "/", "/", "y", "o", "u", "r", "d", "o", "m", "a", "i", "n", ".", "c", "o", "m">>
LocalOrigins == {<<"h", "t", "t", "p", ":", "/", "/", "l", "o", "c", "a", "l", "h", "o", "s", "t", ":", "3", "0", "0", "0">>, <<"h", "t", "t", "p", ":", "/", "/", "l", "o", "c", "a", "l", "h", "o", "s", "t", ":", "3", "0", "0", "1">>}

\* corsConfig.origin, fixed when the module is loaded
corsOrigins(env) == IF env = "production" THEN {ProductionOrigin} ELSE LocalOrigins

\* an origin guard that lets every request pass
validateOrigin_allowAll(env, origin) == TRUE

\* an origin guard that accepts what contains an entry of the list
validateOrigin_includes(env, origin) ==
  IF env # "production" THEN TRUE
  ELSE IF ~truthy(origin) THEN FALSE
  ELSE \E entry \in corsOrigins(env) : includes(origin, entry)

\* validateOrigin(req): origin is req.headers.origin, None when absent

validateOrigin(env, origin) ==
  IF env # "production" THEN TRUE
  ELSE IF ~truthy(origin) THEN FALSE
  ELSE origin \in corsOrigins(env)

\* s.split(sep)[1] for a one-character separator: None when s has no separator
splitSecond(s, sep) ==
  IF indexesOf(s, sep) = {} THEN None
  ELSE LET first == CHOOSE i \in indexesOf(s, sep) : \A j \in indexesOf(s, sep) : i <= j
       IN splitFirst(SubSeq(s, first + 1, Len(s)), sep)

blockedDomains == {<<"t", "e", "m", "p", "m", "a", "i", "l", ".", "c", "o", "m">>, <<"1", "0", "m", "i", "n", "u", "t", "e", "m", "a", "i", "l", ".", "c", "o", "m">>}

\* isEmailAllowed(email)
isEmailAllowed(email) ==
  LET part == splitSecond(email, AtSign)
      domain == IF part = None THEN None ELSE toLowerCase(part)
  IN ~\E blocked \in blockedDomains : domain # None /\ includes(domain, blocked)

\* the e-mail taken as it was sent
sanitizeEmail_raw(email) == email

\* register.ts line 82

sanitizeEmail(email) == trim(toLowerCase(email))

MaxBaseUsernameLength == 16

\* s.replace(/[^a-z0-9]/g, '')
RECURSIVE keepAlnum(_)
keepAlnum(s) ==
  IF s = <<>> THEN <<>>
  ELSE (IF Head(s) \in LowerChars \cup DigitChars THEN <<Head(s)>> ELSE <<>>)
       \o keepAlnum(Tail(s))

\* generateUsername, lines 26-33
baseUsername(displayName) ==
  LET base == substring0(keepAlnum(toLowerCase(displayName)), MaxBaseUsernameLength)
  IN IF base = <<>> THEN <<"u", "s", "e", "r">> ELSE base

digitChar(d) ==
  CASE d = 0 -> "0" [] d = 1 -> "1" [] d = 2 -> "2" [] d = 3 -> "3" [] d = 4 -> "4"
    [] d = 5 -> "5" [] d = 6 -> "6" [] d = 7 -> "7" [] d = 8 -> "8" [] d = 9 -> "9"

\* `${n}` of a natural number
RECURSIVE decimal(_)
decimal(n) == IF n < 10 THEN <<digitChar(n)>> ELSE decimal(n \div 10) \o <<digitChar(n % 10)>>

\* the probe that sees active rows only
findUniqueByUsername_activeOnly(table, username) ==
  LET hits == {id \in DOMAIN table : table[id].username = username /\ table[id].isActive}
  IN IF hits = {} THEN NoId ELSE CHOOSE id \in hits : TRUE

\* prisma.user.findUnique({ where: { username } })
findUniqueByUsername(table, username) ==
  LET hits == {id \in DOMAIN table : table[id].username = username}
  IN IF hits = {} THEN NoId ELSE CHOOSE id \in hits : TRUE

\* prisma.user.findFirst({ where: { OR: [{ email }, { displayName: { equals,
\* mode: 'insensitive' } }] } }) has no orderBy: the rows it may return
findFirstByEmailOrDisplayName(table, email, displayName) ==
  {id \in DOMAIN table :
     \/ table[id].email = email
     \/ toLowerCase(table[id].displayName) = toLowerCase(displayName)}

\* prisma.user.create({ data }): the table after, and whether the unique
\* indexes refuse the row.  Ids are handed out in order of creation; isActive,
\* bio, lastSeen and updatedAt take the column defaults.
userCreate(table, data, t) ==
  LET id == Cardinality(DOMAIN table) + 1
      row == [email |-> data.email, username |-> data.username,
              displayName |-> data.displayName, password |-> data.password,
              bio |-> None, status |-> data.status, isActive |-> TRUE,
              lastSeen |-> t, updatedAt |-> t]
  IN IF uniqueViolation(table, id, row)
     THEN [throws |-> TRUE, id |-> NoId, table |-> table]
     ELSE [throws |-> FALSE, id |-> id,
           table |-> [i \in DOMAIN table \cup {id} |-> IF i = id THEN row ELSE table[i]]]

----------------------------------------------------------------------------
(* pages/api/auth/register.ts: POST /auth/register *)

\* req.headers.origin
RegisterOrigins == {None, ProductionOrigin, <<"h", "t", "t", "p", ":", "/", "/", "e", "v", "i", "l", ".", "e", "x", "a", "m", "p", "l", "e">>}

RegisterMethods == {"POST", "GET"}

NewEmail == <<"n", "@", "e", ".", "c", "o", "m">>
StrongPassword == <<"S", "3", "c", "u", "r", "e", "P", "a", "s", "s">>

RegisterBody(email, displayName, password) ==
  [email |-> email, displayName |-> displayName, password |-> password,
   confirmPassword |-> password]

\* req.body
RegisterBodies ==
  { RegisterBody(<<"C", "@", "D", ".", "c", "o", "m">>, <<"a", "l", "i", "c", "e">>, StrongPassword),
    RegisterBody(NewEmail, <<"a", ".", "l", "i", "c", "e">>, StrongPassword),
    RegisterBody(NewEmail, <<"D", "a", "n">>, <<"w", "e", "a", "k">>),
    RegisterBody(<<"x", "@", "t", "e", "m", "p", "m", "a", "i", "l", ".", "c", "o", "m">>, <<"E", "r", "i", "n">>, StrongPassword) }

\* req.body of the registrations that race
RaceBodies ==
  { RegisterBody(NewEmail, <<"C", "a", "r", "o", "l">>, StrongPassword),
    RegisterBody(<<"N", "@", "E", ".", "c", "o", "m">>, <<"D", "a", "v", "e">>, StrongPassword),
    RegisterBody(<<"m", "@", "e", ".", "c", "o", "m">>, <<"c", ".", "a", "r", "o", "l">>, StrongPassword) }

\* lines 67-91 for each body of the model: validation, sanitisation and the
\* domain check depend on the body alone
parsed ==
  [body \in RegisterBodies \cup RaceBodies |->
     LET validation == signUpSchema(body)
         sanitizedEmail == IF validation.success
                           THEN sanitizeEmail(validation.data.email) ELSE None
     IN [success |-> validation.success,
         email |-> sanitizedEmail,
         displayName |-> IF validation.success
                         THEN sanitizeInput(validation.data.displayName) ELSE None,
         password |-> validation.data.password,
         allowed |-> validation.success /\ isEmailAllowed(sanitizedEmail)]]

\* the request headers detectSuspiciousActivity reads, x-forwarded-for apart
Inspected(userAgent, realIp, contentLength) ==
  [userAgent |-> userAgent, realIp |-> realIp, contentLength |-> contentLength]

Browser ==
  Inspected(<<"M", "o", "z", "i", "l", "l", "a", "/", "5", ".", "0", " ", "(", "X", "1", "1", ")">>, [kind |-> "none"], <<"5", "1", "2">>)

Inspections ==
  { Browser,
    Inspected(<<"c", "u", "r", "l", "/", "8", ".", "4", ".", "0">>, [kind |-> "none"], <<"1", "0", "4", "8", "5", "7", "6", "0">>),
    Inspected(None, [kind |-> "array", vals |-> <<IpA, IpA>>], <<"1", "0", "4", "8", "5", "7", "6", "1">>),
    Inspected(<<"R", "o", "b", "o", "t">>, [kind |-> "string", val |-> IpA], None) }

\* x-forwarded-for of one client: the chain in one value, and in two values
SameClient ==
  { [kind |-> "string", val |-> IpB \o <<",", " ">> \o IpA],
    [kind |-> "array", vals |-> <<IpB, IpA>>] }

\* parseInt of a header value: the leading digits, NaN when there are none
RECURSIVE leadingDigits(_, _)
leadingDigits(s, acc) ==
  IF s = <<>> \/ ~(\E d \in 0..9 : digitChar(d) = Head(s)) THEN acc
  ELSE leadingDigits(Tail(s), 10 * acc + (CHOOSE d \in 0..9 : digitChar(d) = Head(s)))

parseInt(s) ==
  IF s = <<>> \/ ~(\E d \in 0..9 : digitChar(d) = Head(s)) THEN [nan |-> TRUE, n |-> 0]
  ELSE [nan |-> FALSE, n |-> leadingDigits(s, 0)]

LargeRequest == 10485760      \* 10 * 1024 * 1024
ShortUserAgent == 10

\* lines 306-313, each tested without regard to case
botPatterns == {<<"b", "o", "t">>, <<"c", "r", "a", "w", "l", "e", "r">>, <<"s", "p", "i", "d", "e", "r">>, <<"s", "c", "r", "a", "p", "e", "r">>, <<"c", "u", "r", "l">>, <<"w", "g", "e", "t">>}

\* lines 293-337
detectSuspiciousActivity(forwarded, inspected) ==
  LET userAgent == orElse(inspected.userAgent, <<>>)
      contentLength == parseInt(orElse(inspected.contentLength, <<"0">>))
      reasons ==
        (IF userAgent = <<>> \/ Len(userAgent) < ShortUserAgent
         THEN <<"Missing or suspicious user agent">> ELSE <<>>)
        \o (IF \E pattern \in botPatterns : includes(toLowerCase(userAgent), pattern)
            THEN <<"Bot-like user agent detected">> ELSE <<>>)
        \o (IF forwarded.kind = "array"
            THEN <<"Multiple x-forwarded-for headers">> ELSE <<>>)
        \o (IF inspected.realIp.kind = "array"
            THEN <<"Multiple x-real-ip headers">> ELSE <<>>)
        \o (IF ~contentLength.nan /\ contentLength.n > LargeRequest
            THEN <<"Unusually large request">> ELSE <<>>)
  IN [isSuspicious |-> Len(reasons) > 0, reasons |-> reasons]

\* line 54 for each request of the model: the detection depends on the
\* headers alone
detected ==
  [f \in ForwardedHeaders \cup SameClient, inspected \in Inspections |->
     detectSuspiciousActivity(f, inspected)]

\* lines 267-290: the entry goes to the console
logSecurityEvent_throws(type, reasons) ==
  [throws |-> TRUE, entry |-> <<type>> \o reasons]
logSecurityEvent(type, reasons) ==
  [throws |-> FALSE, entry |-> <<type>> \o reasons]

\* the key of the limiter for each x-forwarded-for of the model
keyOf ==
  [f \in {h \in ForwardedHeaders : h.kind = "string"} \cup SameClient |->
     getDefaultKey(f, None, None, RegisterUrl)]

\* what the request was, for an answer given before persistence is reached;
\* retryAfter: the retryAfter of the body, the empty set when it has none
RegInput(origin, method, key, valid) ==
  [origin |-> origin, method |-> method, key |-> key, valid |-> valid, retryAfter |-> {},
   logged |-> <<>>, counted |-> FALSE]

\* what a register request carries from one call of persistence to the next
RegLoc(email, displayName, password) ==
  [email |-> email, displayName |-> displayName, password |-> password,
   base |-> None, username |-> None, counter |-> 0, id |-> NoId, logged |-> <<>>,
   counted |-> FALSE]

\* the handler has answered
RegDone(res, read, wrote, note, loc) ==
  [Done("register", NoId, res, read, wrote, note) EXCEPT !.loc = loc]

\* lines 11-91: the origin guard, the method, the limiter, the detection of
\* suspicious activity, validation and sanitisation; nothing of it waits on
\* persistence. req: the answer or the handler's position; check: the
\* limiter's check when the request reached it
regAdmitted(env, config, store, t, t2, origin, method, f, inspected, body) ==
  LET key == keyOf[f]
      validation == parsed[body]
      loc == RegInput(origin, method, key, validation.success)
      r == rateLimit(config, key, DefaultStatusCode, t, t2, store)
      \* has the check of lines 36-37 added one to the entry's count
      counted == r.entry.count = (IF r.fresh THEN 0 ELSE store[key].count) + 1
      suspiciousCheck == detected[f, inspected]
      log == IF suspiciousCheck.isSuspicious
             THEN logSecurityEvent("SUSPICIOUS_ACTIVITY", suspiciousCheck.reasons)
             ELSE [throws |-> FALSE, entry |-> <<>>]
  IN
  IF ~validateOrigin(env, origin)
  THEN [checked |-> FALSE, store |-> store,
        req |-> RegDone(Res(403, "Forbidden", Absent), FALSE, FALSE, "origin", loc)]
  ELSE IF method # "POST"
  THEN [checked |-> FALSE, store |-> store,
        req |-> RegDone(Res(405, "Method not allowed", Absent), FALSE, FALSE, "method", loc)]
  ELSE
    [checked |-> TRUE, store |-> r.store, check |-> r,
     req |->
       IF ~r.result.success
       THEN RegDone(Res(429, "Too many registration attempts. Please try again later.", Absent),
                    FALSE, FALSE, "limited",
                    [loc EXCEPT !.retryAfter = {Ceil(r.result.resetTime - t2, 1000)},
                                !.counted = counted])
       ELSE IF log.throws
       THEN RegDone(Res(500, "Internal Server Error", Absent), FALSE, FALSE, "log throws",
                    [loc EXCEPT !.logged = log.entry, !.counted = counted])
       ELSE IF ~validation.success
       THEN RegDone(Res(400, "Validation failed", Absent), FALSE, FALSE, "invalid",
                    [loc EXCEPT !.logged = log.entry, !.counted = counted])
       ELSE IF ~validation.allowed
       THEN RegDone(Res(400, "Email domain is not allowed", Absent), FALSE, FALSE,
                    "blocked domain", [loc EXCEPT !.logged = log.entry, !.counted = counted])
       ELSE Waiting("regFind", "register", NoId, FALSE, FALSE, "admitted",
                    [RegLoc(validation.email, validation.displayName, validation.password)
                       EXCEPT !.logged = log.entry, !.counted = counted])]

RegAdmit(s, clients, inspections, bodies) ==
  /\ reqs[s].pc = "idle"
  /\ \E origin \in RegisterOrigins, method \in RegisterMethods,
        f \in clients, inspected \in inspections, body \in bodies, t2 \in Later(now) :
       LET a == regAdmitted(nodeEnv, limiter, rateLimitStore, now, t2,
                            origin, method, f, inspected, body)
       IN /\ reqs' = [reqs EXCEPT ![s] = a.req]
          /\ IF a.checked
             THEN /\ canCheck(keyOf[f])
                  /\ rateLimitStore' = a.store
                  /\ now' = t2
                  /\ seen' = observe(seen, checkRecord(keyOf[f], now, rateLimitStore, a.check))
             ELSE /\ t2 = now
                  /\ UNCHANGED <<now, rateLimitStore, seen>>
  /\ UNCHANGED <<nodeEnv, users, sessions, accounts, tokens, limiter, lastCheck,
                 deactivated>>

\* which rows stand in the way of the registration, whatever the lookup returns
takenNote(table, email, displayName) ==
  IF \E id \in DOMAIN table : table[id].email = email THEN "email taken"
  ELSE IF \E id \in DOMAIN table :
            toLowerCase(table[id].displayName) = toLowerCase(displayName)
       THEN "name taken"
       ELSE "free"

\* lines 93-127: the lookup of an existing user and the two conflict answers
RegFindFirst(s) ==
  /\ reqs[s].pc = "regFind"
  /\ \E throws \in BOOLEAN :
       LET loc == reqs[s].loc
           hits == findFirstByEmailOrDisplayName(users, loc.email, loc.displayName)
           note == takenNote(users, loc.email, loc.displayName)
       IN
       IF throws
       THEN reqs' = [reqs EXCEPT ![s] =
                       Thrown(RegDone(Res(500, "Internal server error", Absent), TRUE, FALSE,
                               "lookup throws", loc))]
       ELSE IF hits = {}
       THEN reqs' = [reqs EXCEPT ![s] =
                       [@ EXCEPT !.pc = "regProbe", !.read = TRUE, !.note = note,
                                 !.loc = [loc EXCEPT !.base = baseUsername(loc.displayName),
                                                     !.username = baseUsername(loc.displayName),
                                                     !.counter = 1]]]
       ELSE \E existingUser \in hits :
              reqs' = [reqs EXCEPT ![s] =
                         IF users[existingUser].email = loc.email
                         THEN RegDone(Res(400, "Email already registered", "email"),
                                      TRUE, FALSE, note, loc)
                         ELSE RegDone(Res(400, "Display name already taken", "displayName"),
                                      TRUE, FALSE, note, loc)]
  /\ UNCHANGED <<now, nodeEnv, rateLimitStore, users, sessions, accounts, tokens,
                 limiter, lastCheck, seen, deactivated>>

\* generateUsername, lines 35-44: one turn of the probe loop
RegProbe(s) ==
  /\ reqs[s].pc = "regProbe"
  /\ \E throws \in BOOLEAN :
       LET loc == reqs[s].loc IN
       reqs' = [reqs EXCEPT ![s] =
                  IF throws
                  THEN Thrown(RegDone(Res(500, "Internal server error", Absent), TRUE, FALSE,
                               "probe throws", loc))
                  ELSE IF findUniqueByUsername(users, loc.username) # NoId
                  THEN [@ EXCEPT !.loc = [loc EXCEPT !.username = loc.base \o decimal(loc.counter),
                                                     !.counter = loc.counter + 1]]
                  ELSE [@ EXCEPT !.pc = "regCreate"]]
  /\ UNCHANGED <<now, nodeEnv, rateLimitStore, users, sessions, accounts, tokens,
                 limiter, lastCheck, seen, deactivated>>

\* lines 126-151 and the catch of lines 167-184: the row is created
RegCreate(s) ==
  /\ reqs[s].pc = "regCreate"
  /\ \E throws \in BOOLEAN :
       LET loc == reqs[s].loc
           made == userCreate(users,
                              [email |-> loc.email, username |-> loc.username,
                               displayName |-> loc.displayName,
                               password |-> hashPassword(loc.password), status |-> "ONLINE"],
                              now)
       IN
       IF throws
       THEN /\ reqs' = [reqs EXCEPT ![s] =
                          Thrown(RegDone(Res(500, "Internal server error", Absent), TRUE, FALSE,
                                  "create throws", loc))]
            /\ UNCHANGED users
       ELSE IF made.throws
       THEN /\ reqs' = [reqs EXCEPT ![s] =
                          Thrown(RegDone(Res(400, "User already exists", Absent), TRUE,
                                         FALSE, "unique constraint", loc))]
            /\ UNCHANGED users
       ELSE /\ users' = made.table
            /\ reqs' = [reqs EXCEPT ![s] =
                          [@ EXCEPT !.pc = "regTouch", !.wrote = TRUE,
                                    !.loc = [loc EXCEPT !.id = made.id]]]
  /\ UNCHANGED <<now, nodeEnv, rateLimitStore, sessions, accounts, tokens, limiter,
                 lastCheck, seen, deactivated>>

\* lines 153-165: lastSeen is set and the handler answers 201
RegTouch(s) ==
  /\ reqs[s].pc = "regTouch"
  /\ \E throws \in BOOLEAN :
       LET loc == reqs[s].loc
           up == userUpdate(users, loc.id, [lastSeen |-> now])
       IN
       IF throws \/ up.throws
       THEN /\ reqs' = [reqs EXCEPT ![s] =
                          Thrown(RegDone(Res(500, "Internal server error", Absent), TRUE, TRUE,
                                  "update throws", loc))]
            /\ UNCHANGED users
       ELSE /\ users' = up.table
            /\ reqs' = [reqs EXCEPT ![s] =
                          RegDone(Res(201, "", Absent), TRUE, TRUE, reqs[s].note, loc)]
  /\ UNCHANGED <<now, nodeEnv, rateLimitStore, sessions, accounts, tokens, limiter,
                 lastCheck, seen, deactivated>>

----------------------------------------------------------------------------
(* Registration, one request at a time, as time passes *)

\* the requests of one client, behind one proxy
OneClient == {[kind |-> "string", val |-> IpB \o <<",", " ">> \o IpA]}

InitRegister ==
  /\ now = 0
  /\ nodeEnv \in {"production", "development"}
  /\ rateLimitStore = EmptyMap
  /\ users = [id \in {AliceId, BobId} |-> IF id = AliceId THEN aliceRow ELSE bobRow]
  /\ sessions = {}
  /\ accounts = {}
  /\ tokens = EmptyMap
  /\ reqs = [s \in Slots |-> Idle]
  /\ limiter = authConfig
  /\ lastCheck = NoCheck
  /\ seen = [k \in Keys |-> NotSeen]
  /\ deactivated = {}

NextRegister ==
  \/ Tick
  \/ \E s \in DOMAIN reqs : RegAdmit(s, OneClient, {Browser}, RegisterBodies)
  \/ \E s \in DOMAIN reqs : RegFindFirst(s)
  \/ \E s \in DOMAIN reqs : RegProbe(s)
  \/ \E s \in DOMAIN reqs : RegCreate(s)
  \/ \E s \in DOMAIN reqs : RegTouch(s)
  \/ \E s \in DOMAIN reqs : Reply(s)

SpecRegister == InitRegister /\ [][NextRegister]_vars

\* the register handler behind a limiter that skips failed or successful requests
InitSkip ==
  /\ now = 0
  /\ nodeEnv = "development"
  /\ rateLimitStore = EmptyMap
  /\ users = [id \in {AliceId, BobId} |-> IF id = AliceId THEN aliceRow ELSE bobRow]
  /\ sessions = {}
  /\ accounts = {}
  /\ tokens = EmptyMap
  /\ reqs = [s \in Slots |-> Idle]
  /\ limiter \in {skipFailedConfig, skipSuccessfulConfig}
  /\ lastCheck = NoCheck
  /\ seen = [k \in Keys |-> NotSeen]
  /\ deactivated = {}

\* a registration, while the checks of a window are within the model's cap
SkipRegister(s) ==
  /\ RegAdmit(s, OneClient, {Browser}, RegisterBodies)
  /\ \A k \in Keys : seen'[k].checks <= MaxCount

NextSkip ==
  \/ \E s \in DOMAIN reqs : SkipRegister(s)
  \/ \E s \in DOMAIN reqs : RegFindFirst(s)
  \/ \E s \in DOMAIN reqs : RegProbe(s)
  \/ \E s \in DOMAIN reqs : RegCreate(s)
  \/ \E s \in DOMAIN reqs : RegTouch(s)
  \/ \E s \in DOMAIN reqs : Reply(s)

SpecSkip == InitSkip /\ [][NextSkip]_vars

\* req.body of the registrations the detection looks at: one that creates
\* its row and one that validation refuses
SuspiciousBodies ==
  { RegisterBody(NewEmail, <<"a", ".", "l", "i", "c", "e">>, StrongPassword),
    RegisterBody(NewEmail, <<"D", "a", "n">>, <<"w", "e", "a", "k">>) }

\* registrations of one client under every header the detection inspects
NextSuspicious ==
  \/ \E s \in DOMAIN reqs : RegAdmit(s, SameClient, Inspections, SuspiciousBodies)
  \/ \E s \in DOMAIN reqs : RegFindFirst(s)
  \/ \E s \in DOMAIN reqs : RegProbe(s)
  \/ \E s \in DOMAIN reqs : RegCreate(s)
  \/ \E s \in DOMAIN reqs : RegTouch(s)
  \/ \E s \in DOMAIN reqs : Reply(s)

SpecSuspicious == InitRegister /\ [][NextSuspicious]_vars

----------------------------------------------------------------------------
(* Registrations and profile updates of a signed-in user, two at a time *)

RaceSlots == {1, 2}

\* PATCH /user/profile with a username and no display name: the requests
\* that probe the table
PatchRequest(s) ==
  /\ ProfileRequest(s)
  /\ reqs'[s].op = "patch"
  /\ reqs'[s].read
  /\ reqs'[s].loc.body.displayName = None

\* POST /auth/register, admitted: the requests that reach the table, all of
\* them within one millisecond
RaceRegister(s) ==
  /\ RegAdmit(s, OneClient, {Browser}, RaceBodies)
  /\ reqs'[s].pc = "regFind"
  /\ now' = now

\* Alice has signed in
InitRace ==
  /\ now = 0
  /\ nodeEnv = "development"
  /\ rateLimitStore = EmptyMap
  /\ users = [id \in {AliceId, BobId} |-> IF id = AliceId THEN aliceRow ELSE bobRow]
  /\ sessions = {}
  /\ accounts = {}
  /\ tokens = [c \in {AliceId} |->
                 LET user == authorizeResult(authorizeLookup(
                               [email |-> AliceEmail, password |-> AlicePassword],
                               users, FALSE))
                 IN jwt(defaultToken(user), user)]
  /\ reqs = [s \in RaceSlots |-> Idle]
  /\ limiter = authConfig
  /\ lastCheck = NoCheck
  /\ seen = [k \in Keys |-> NotSeen]
  /\ deactivated = {}

NextRace ==
  \/ \E s \in DOMAIN reqs : RaceRegister(s)
  \/ \E s \in DOMAIN reqs : RegFindFirst(s)
  \/ \E s \in DOMAIN reqs : RegProbe(s)
  \/ \E s \in DOMAIN reqs : RegCreate(s)
  \/ \E s \in DOMAIN reqs : RegTouch(s)
  \/ \E s \in DOMAIN reqs : PatchRequest(s)
  \/ \E s \in DOMAIN reqs : PatchUpdate(s)
  \/ \E s \in DOMAIN reqs : Reply(s)

SpecRace == InitRace /\ [][NextRace]_vars

----------------------------------------------------------------------------
(* C6, C8, C9: registration; C7: uniqueness under concurrency *)

\* C6 as stated: a valid registration whose normalised e-mail is the e-mail of
\* a row of the table is answered 400 with field "email" and creates no row,
\* whatever its display name.
C6_TakenEmailNamesEmail ==
  \A s \in DOMAIN reqs :
    (/\ reqs[s].pc = "done"
     /\ reqs[s].op = "register"
     /\ reqs[s].note = "email taken")
    => /\ reqs[s].res.status = 400
       /\ reqs[s].res.field = "email"
       /\ ~reqs[s].wrote

\* the email and the username columns hold no value twice, the e-mails compared
\* without regard to case
uniqueRows(table) ==
  \A a, b \in DOMAIN table :
    a # b => /\ toLowerCase(table[a].email) # toLowerCase(table[b].email)
             /\ table[a].username # table[b].username

\* C7: whatever the interleaving of registrations and profile updates, no two
\* rows of the user table, active or not, have the same e-mail or the same
\* username.
C7_EmailAndUsernameUnique == uniqueRows(users)

\* two registrations passed the lookup together and the unique index refused
\* the second
C7_Witness ==
  /\ \E s \in DOMAIN reqs :
       /\ reqs[s].pc = "done"
       /\ reqs[s].op = "register"
       /\ reqs[s].note = "unique constraint"
  /\ Cardinality(DOMAIN users) > 2

\* a registration arrives in this step, at slot s
arrives(s) ==
  /\ reqs[s].pc = "idle"
  /\ reqs'[s].pc # "idle"
  /\ reqs'[s].op = "register"

\* the step leaves the limiter and the user table as they were
untouched ==
  /\ rateLimitStore' = rateLimitStore
  /\ seen' = seen
  /\ users' = users

\* C8: the origin is checked first, the method second, the limiter third: a
\* registration from an origin that is not allowed is answered 403, one from an
\* allowed origin with another method than POST 405, and neither is counted by
\* the limiter nor reads or writes the user table; every other registration is
\* counted, and is answered or passed on before the user table is read.
C8_OriginThenMethodThenLimiter ==
  [][\A s \in DOMAIN reqs :
       arrives(s) =>
         LET r == reqs'[s] IN
         IF r.pc = "done"
         THEN LET originAllowed == nodeEnv # "production" \/ r.loc.origin = ProductionOrigin
              IN /\ ~r.read /\ ~r.wrote /\ users' = users
                 /\ ~originAllowed => r.res.status = 403 /\ untouched
                 /\ (originAllowed /\ r.loc.method # "POST")
                      => r.res.status = 405 /\ untouched
                 /\ (originAllowed /\ r.loc.method = "POST")
                      => /\ r.res.status \in {429, 400}
                         /\ seen'[r.loc.key].checks = 
                              IF seen'[r.loc.key].resetTime = seen[r.loc.key].resetTime
                              THEN seen[r.loc.key].checks + 1 ELSE 1
         ELSE /\ r.pc = "regFind"
              /\ ~r.read /\ ~r.wrote /\ users' = users
              /\ seen' # seen]_vars

\* a POST from an origin that is not allowed, after the limiter has counted
\* requests of the same key
C8_Witness ==
  \E s \in DOMAIN reqs :
    /\ reqs[s].pc = "done"
    /\ reqs[s].op = "register"
    /\ reqs[s].res.status = 403
    /\ reqs[s].loc.method = "POST"
    /\ reqs[s].loc.valid
    /\ reqs[s].loc.key \in DOMAIN rateLimitStore
    /\ seen[reqs[s].loc.key].checks = rateLimitStore[reqs[s].loc.key].count

\* the limiter has let one more request of key k pass
admitsOne(k) ==
  /\ seen'[k].admitted = IF seen'[k].resetTime = seen[k].resetTime
                         THEN seen[k].admitted + 1 ELSE 1
  /\ \A other \in DOMAIN seen : other # k => seen'[other] = seen[other]

\* C9: a registration the limiter refuses is answered 429 with a retryAfter
\* and neither validated nor shown to the user table; every registration that
\* is validated is one more of the at most 5 its key is admitted for per window.
C9_LimitedAre429 ==
  [][/\ \A s \in DOMAIN reqs :
          arrives(s) =>
            LET r == reqs'[s] IN
            /\ (r.pc = "done" /\ r.res.status = 429)
                 => /\ r.loc.retryAfter # {}
                    /\ ~r.read /\ ~r.wrote /\ users' = users
                    /\ seen'[r.loc.key].admitted = seen[r.loc.key].admitted
                    /\ seen'[r.loc.key].checks > AuthMaxRequests
            /\ (r.pc = "regFind" \/ (r.pc = "done" /\ r.res.status = 400))
                 => \E k \in DOMAIN seen : admitsOne(k)
     /\ \A k \in DOMAIN seen : seen'[k].admitted <= AuthMaxRequests]_vars

\* a valid registration refused by the limiter after five of its key passed
C9_Witness ==
  \E s \in DOMAIN reqs :
    /\ reqs[s].pc = "done"
    /\ reqs[s].op = "register"
    /\ reqs[s].res.status = 429
    /\ reqs[s].loc.valid
    /\ reqs[s].loc.retryAfter # {}
    /\ seen[reqs[s].loc.key].admitted = AuthMaxRequests

----------------------------------------------------------------------------
(* C11, C12: the profile update *)

\* the fields a PATCH body carries
sentFields(body) ==
  {f \in {"displayName", "username", "bio"} : body[f] # None}
  \cup (IF body.status # Absent THEN {"status"} ELSE {})

\* PATCH /user/profile is answered in this step, at slot s
patchAnswered(s) ==
  /\ reqs[s].pc # "done"
  /\ reqs'[s].pc = "done"
  /\ reqs'[s].op = "patch"

\* C11: the step in which PATCH /user/profile answers 200 changes, in the row
\* of the caller, only fields the body carries and updatedAt; email, password
\* and isActive and every field the body does not carry stay, and so does
\* every other row.
C11_PatchChangesOnlySentFields ==
  [][\A s \in DOMAIN reqs :
       (patchAnswered(s) /\ reqs'[s].res.status = 200)
       => /\ DOMAIN users' = DOMAIN users
          /\ \A id \in DOMAIN users : \A f \in DOMAIN users[id] :
               users'[id][f] # users[id][f]
               => /\ id = reqs'[s].uid
                  /\ f \in sentFields(reqs'[s].loc.body) \cup {"updatedAt"}]_vars

\* a PATCH that carried the bio alone has written it
C11_Witness ==
  \E s \in DOMAIN reqs :
    /\ reqs[s].pc = "done"
    /\ reqs[s].op = "patch"
    /\ reqs[s].res.status = 200
    /\ sentFields(reqs[s].loc.body) = {"bio"}
    /\ users[reqs[s].uid].bio = <<"h", "i">>
    /\ users[reqs[s].uid].status = "ONLINE"

\* C12: a PATCH whose username, lower-cased, is the username of another row
\* is answered 400 with field "username" and leaves the table as it was; one
\* whose username is the caller's own is answered 200.
C12_TakenUsernameRefused ==
  [][\A s \in DOMAIN reqs :
       (/\ patchAnswered(s)
        /\ reqs'[s].res.status # 500
        /\ reqs'[s].loc.body.username # None
        /\ parsedPatch[reqs'[s].loc.body].success)
       => LET uid == reqs'[s].uid
              username == toLowerCase(reqs'[s].loc.body.username)
          IN /\ (\E other \in DOMAIN users :
                   other # uid /\ users[other].username = username)
                => /\ reqs'[s].res.status = 400
                   /\ reqs'[s].res.field = "username"
                   /\ users' = users
             /\ users[uid].username = username => reqs'[s].res.status = 200]_vars

\* Alice asked for Bob's username, in another case, and for a status with it
C12_Witness ==
  \E s \in DOMAIN reqs :
    /\ reqs[s].pc = "done"
    /\ reqs[s].op = "patch"
    /\ reqs[s].uid = AliceId
    /\ reqs[s].loc.body.username = <<"B", "o", "b">>
    /\ reqs[s].loc.body.status = "IDLE"
    /\ reqs[s].res.field = "username"
    /\ users[AliceId].status # "IDLE"

----------------------------------------------------------------------------
(* lib/auth.ts, generateUsername on a table that does not change *)

MaxSuffix == 10      \* the tables hold base1 .. base<MaxSuffix> at most

\* the display names generateUsername is called with
GenerateNames ==
  {<<"A", "l", "i", "c", "e", "!">>, <<"a", ".", "l", "i", "c", "e">>, <<"!", "!", "!">>, <<"B", "o", "b">>, <<"A", "b", "c", "d", "e", "f", "g", "h", "i", "j", "k", "l", "m", "n", "o", "p", "q", "r", "s">>}

\* the usernames the rows of the tables are built around
TakenBases == {<<"a", "l", "i", "c", "e">>, <<"u", "s", "e", "r">>, <<"a", "b", "c", "d", "e", "f", "g", "h", "i", "j", "k", "l", "m", "n", "o", "p">>}

\* a table in which base is held when 0 is in `held`, and base<k> for the other k in `held`
tableOf(base, held) ==
  [id \in {k + 1 : k \in held} |->
     [bobRow EXCEPT !.username = IF id = 1 THEN base ELSE base \o decimal(id - 1),
                    !.email = decimal(id) \o <<AtSign>> \o <<"t", ".", "i", "o">>]]

\* generateUsername(displayName) is called: lines 26-36
GenerateStart(s) ==
  /\ reqs[s].pc = "idle"
  /\ \E displayName \in GenerateNames :
       reqs' = [reqs EXCEPT ![s] =
                  Waiting("regProbe", "register", NoId, TRUE, FALSE, "free",
                          [RegLoc(NewEmail, displayName, StrongPassword)
                             EXCEPT !.base = baseUsername(displayName),
                                    !.username = baseUsername(displayName),
                                    !.counter = 1])]
  /\ UNCHANGED <<now, nodeEnv, rateLimitStore, users, sessions, accounts, tokens,
                 limiter, lastCheck, seen, deactivated>>

\* the table holds base, base1 .. base<n>, but for one of them at most
InitGenerate ==
  /\ now = 0
  /\ nodeEnv = "development"
  /\ rateLimitStore = EmptyMap
  /\ \E base \in TakenBases, n \in 0..MaxSuffix, hole \in 0..(MaxSuffix + 1) :
       users = tableOf(base, (0..n) \ {hole})
  /\ sessions = {}
  /\ accounts = {}
  /\ tokens = EmptyMap
  /\ reqs = [s \in Slots |-> Idle]
  /\ limiter = authConfig
  /\ lastCheck = NoCheck
  /\ seen = [k \in Keys |-> NotSeen]
  /\ deactivated = {}

NextGenerate ==
  \/ \E s \in DOMAIN reqs : GenerateStart(s)
  \/ \E s \in DOMAIN reqs : RegProbe(s)

SpecGenerate == InitGenerate /\ [][NextGenerate]_vars

\* some row holds the username
held(table, username) == \E id \in DOMAIN table : table[id].username = username

\* C13: generateUsername returns the base when no row holds it, and otherwise
\* the base followed by the least k >= 1 for which no row holds base<k>.
C13_LeastFreeSuffix ==
  \A s \in DOMAIN reqs :
    reqs[s].pc = "regCreate"
    => LET base == baseUsername(reqs[s].loc.displayName)
           username == reqs[s].loc.username
       IN /\ ~held(users, username)
          /\ ~held(users, base) => username = base
          /\ held(users, base)
             => \E k \in 1..(MaxSuffix + 1) :
                  /\ username = base \o decimal(k)
                  /\ \A j \in 1..(k - 1) : held(users, base \o decimal(j))

\* "alice" and "alice1" are held and "Alice!" was given "alice2"
C13_Witness ==
  \E s \in DOMAIN reqs :
    /\ reqs[s].pc = "regCreate"
    /\ reqs[s].loc.displayName = <<"A", "l", "i", "c", "e", "!">>
    /\ reqs[s].loc.username = <<"a", "l", "i", "c", "e", "2">>
    /\ held(users, <<"a", "l", "i", "c", "e">>)
    /\ held(users, <<"a", "l", "i", "c", "e", "1">>)

----------------------------------------------------------------------------
(* C14: the detection of suspicious activity *)

\* the two records agree in all but the entry that went to the log
sameAnswer(x, y) ==
  [x EXCEPT !.loc.logged = <<>>] = [y EXCEPT !.loc.logged = <<>>]

\* C14: when the register handler admits or answers a request, the same
\* request with any other user agent, multiplicity of x-forwarded-for and
\* x-real-ip and content length, under the same rate-limit key, gets the same
\* answer or position and the same change of the limiter's store.
C14_DetectionNeverBlocks ==
  [][\A s \in DOMAIN reqs :
       (reqs[s].pc = "idle" /\ reqs'[s].pc # "idle")
       => \A origin \in RegisterOrigins, method \in RegisterMethods,
             body \in SuspiciousBodies, f1 \in SameClient, i1 \in Inspections :
            LET a == regAdmitted(nodeEnv, limiter, rateLimitStore, now, now',
                                 origin, method, f1, i1, body)
            IN a.req = reqs'[s]
               => \A f2 \in SameClient, i2 \in Inspections :
                    LET b == regAdmitted(nodeEnv, limiter, rateLimitStore, now, now',
                                         origin, method, f2, i2, body)
                    IN /\ keyOf[f2] = keyOf[f1]
                       /\ b.checked = a.checked
                       /\ b.store = a.store
                       /\ sameAnswer(b.req, a.req)]_vars

\* a registration that was logged for three reasons has created its row
C14_Witness ==
  \E s \in DOMAIN reqs :
    /\ reqs[s].pc = "done"
    /\ reqs[s].op = "register"
    /\ reqs[s].res.status = 201
    /\ Len(reqs[s].loc.logged) = 4
    /\ \E id \in DOMAIN users : users[id].email = reqs[s].loc.email

----------------------------------------------------------------------------
(* C15: the result of a check *)

\* C15: each check answers from the count as it is after the check's own
\* increment: success is count <= maxRequests, remaining is maxRequests - count
\* and 0 when that is negative, a failed check has remaining 0, and the
\* Retry-After header is set exactly on the failed checks.
C15_ResultFollowsCount ==
  lastCheck # NoCheck =>
    LET count == lastCheck.entry.count
        left == limiter.maxRequests - count
    IN /\ count = (IF lastCheck.found /\ ~lastCheck.at > lastCheck.before.resetTime
                   THEN lastCheck.before.count ELSE 0) + 1
       /\ lastCheck.result.success = (count <= limiter.maxRequests)
       /\ lastCheck.result.remaining = (IF left > 0 THEN left ELSE 0)
       /\ lastCheck.result.remaining >= 0
       /\ ~lastCheck.result.success => lastCheck.result.remaining = 0
       /\ (lastCheck.retryAfter # {}) = ~lastCheck.result.success

\* a check two past the limit: refused, nothing remaining, Retry-After set
C15_Witness ==
  /\ lastCheck # NoCheck
  /\ lastCheck.entry.count = limiter.maxRequests + 2
  /\ ~lastCheck.result.success
  /\ lastCheck.result.remaining = 0
  /\ lastCheck.retryAfter # {}

----------------------------------------------------------------------------
(* The library functions, each called once on an input of a bounded set *)

MaxInputChars == 4   \* the short inputs of sanitizeInput have this many characters at most

\* the strings over `chars` of n characters at most
StringsUpTo(chars, n) == UNION {[1..k -> chars] : k \in 0..n}

SanitizeChars == {"<", ">", " ", "x"}

SanitizeInputs == StringsUpTo(SanitizeChars, MaxInputChars)

MaxParts == 3        \* the passwords are made of this many pieces at most

\* more characters than a password may have
LongPiece == [i \in 1..(MaxPasswordLength + 1) |-> "a"]

PasswordPieces ==
  {<<"a", "b", "c">>, <<"X", "Y", "Z">>, <<"1", "2">>, <<"Q", "w", "e", "r", "t", "y">>,
   LongPiece}

RECURSIVE concat(_)
concat(parts) == IF parts = <<>> THEN <<>> ELSE Head(parts) \o concat(Tail(parts))

PasswordInputs == {concat(parts) : parts \in StringsUpTo(PasswordPieces, MaxParts)}

MaxDepth == 2        \* objects are nested this deep at most

\* JavaScript values as JSON.parse delivers them: numbers, null, arrays and
\* objects whose prototype is Object.prototype
Num(n) == [kind |-> "number", n |-> n]
Null == [kind |-> "null"]
Arr(items) == [kind |-> "array", items |-> items]
Obj(own) == [kind |-> "object", own |-> own]

\* what a property read yields when no own property answers it
Undefined == [kind |-> "undefined"]
Inherited == [kind |-> "function"]

DangerousKeys == {"__proto__", "constructor", "prototype"}

\* the own properties of an object; Undefined for a key it does not have
ownOf(proto, constructor, prototype, a) ==
  LET val == [k \in DangerousKeys \cup {"a"} |->
                CASE k = "__proto__" -> proto
                  [] k = "constructor" -> constructor
                  [] k = "prototype" -> prototype
                  [] k = "a" -> a]
  IN [k \in {k \in DOMAIN val : val[k] # Undefined} |-> val[k]]

RECURSIVE JsonValues(_)
JsonValues(depth) ==
  IF depth = 0 THEN {Num(1), Null}
  ELSE LET lower == JsonValues(depth - 1) IN
       lower
         \cup {Arr(items) : items \in StringsUpTo(lower, 1)}
         \cup {Obj(ownOf(p, c, t, a)) :
                 p \in {Undefined, Num(1), Null}, c \in {Undefined, Num(1), Null},
                 t \in {Undefined, Num(1)}, a \in lower \cup {Undefined}}

\* input.key
getProperty(input, key) ==
  IF input.kind = "object" /\ key \in DOMAIN input.own THEN input.own[key]
  ELSE IF key \in {"__proto__", "constructor"} THEN Inherited
  ELSE Undefined

\* JavaScript truthiness of a value
truthyValue(v) ==
  CASE v.kind \in {"undefined", "null"} -> FALSE
    [] v.kind = "number" -> v.n # 0
    [] OTHER -> TRUE

\* security.ts lines 205-229
RECURSIVE sanitizeJson(_)
sanitizeJson(input) ==
  IF input.kind \notin {"object", "array"} THEN input
  ELSE IF \/ truthyValue(getProperty(input, "__proto__"))
          \/ truthyValue(getProperty(input, "constructor"))
          \/ truthyValue(getProperty(input, "prototype"))
  THEN Obj(<<>>)
  ELSE IF input.kind = "array"
  THEN Arr([i \in DOMAIN input.items |->
              IF input.items[i].kind \in {"object", "array"}
              THEN sanitizeJson(input.items[i]) ELSE input.items[i]])
  ELSE Obj([key \in DOMAIN input.own \ DangerousKeys |->
              IF input.own[key].kind \in {"object", "array"}
              THEN sanitizeJson(input.own[key]) ELSE input.own[key]])

\* process.env.NODE_ENV
DeploymentModes == {"production", "development", "test"}

\* req.headers.origin
OriginHeaders ==
  {None, <<>>, ProductionOrigin, ProductionOrigin \o <<"/">>,
   ProductionOrigin \o <<".", "e", "v", "i", "l", ".", "i", "o">>, toLowerCase(ProductionOrigin) \o <<" ">>,
   <<"H", "T", "T", "P", "S", ":", "/", "/", "Y", "O", "U", "R", "D", "O", "M", "A", "I", "N", ".", "C", "O", "M">>} \cup LocalOrigins

OriginInputs == {[env |-> env, origin |-> origin] : env \in DeploymentModes, origin \in OriginHeaders}

\* req.url of the register route, without and with a query string
RequestUrls ==
  {RegisterUrl, RegisterUrl \o <<"?", "x", "=", "1">>, RegisterUrl \o <<"?", "x", "=", "2">>}

\* req.session?.user?.id
SessionUserIds == {None, <<"u", "1">>}

KeyInputs ==
  {[forwarded |-> f, remoteAddress |-> a, userId |-> u, url |-> url] :
     f \in ForwardedHeaders \cup SameClient, a \in RemoteAddresses,
     u \in SessionUserIds, url \in RequestUrls}

\* a function of the library has been called with `input`
Called(op, input) == [pc |-> "called", op |-> op, loc |-> input, res |-> None]

\* the function has returned `output`
Returned(call, output) == [call EXCEPT !.pc = "returned", !.res = output]

\* the calls of the model
Calls ==
  {Called("sanitizeInput", x) : x \in SanitizeInputs}
    \cup {Called("validatePasswordStrength", x) : x \in PasswordInputs}
    \cup {Called("sanitizeJson", x) : x \in JsonValues(MaxDepth)}
    \cup {Called("validateOrigin", x) : x \in OriginInputs}
    \cup {Called("getDefaultKey", x) : x \in KeyInputs}

InitPure ==
  /\ now = 0
  /\ \E call \in Calls :
       /\ reqs = [s \in Slots |-> call]
       /\ nodeEnv = IF call.op = "validateOrigin" THEN call.loc.env ELSE "development"
  /\ rateLimitStore = EmptyMap
  /\ users = EmptyMap
  /\ sessions = {}
  /\ accounts = {}
  /\ tokens = EmptyMap
  /\ limiter = authConfig
  /\ lastCheck = NoCheck
  /\ seen = [k \in Keys |-> NotSeen]
  /\ deactivated = {}

\* what a call leaves alone: the functions read their argument and the
\* deployment mode only
pureFrame ==
  UNCHANGED <<now, nodeEnv, rateLimitStore, users, sessions, accounts, tokens,
              limiter, lastCheck, seen, deactivated>>

SanitizeInputCall(s) ==
  /\ reqs[s].pc = "called"
  /\ reqs[s].op = "sanitizeInput"
  /\ reqs' = [reqs EXCEPT ![s] = Returned(@, sanitizeInput(@.loc))]
  /\ pureFrame

ValidatePasswordStrengthCall(s) ==
  /\ reqs[s].pc = "called"
  /\ reqs[s].op = "validatePasswordStrength"
  /\ reqs' = [reqs EXCEPT ![s] = Returned(@, validatePasswordStrength(@.loc))]
  /\ pureFrame

SanitizeJsonCall(s) ==
  /\ reqs[s].pc = "called"
  /\ reqs[s].op = "sanitizeJson"
  /\ reqs' = [reqs EXCEPT ![s] = Returned(@, sanitizeJson(@.loc))]
  /\ pureFrame

ValidateOriginCall(s) ==
  /\ reqs[s].pc = "called"
  /\ reqs[s].op = "validateOrigin"
  /\ reqs' = [reqs EXCEPT ![s] = Returned(@, validateOrigin(nodeEnv, @.loc.origin))]
  /\ pureFrame

GetDefaultKeyCall(s) ==
  /\ reqs[s].pc = "called"
  /\ reqs[s].op = "getDefaultKey"
  /\ reqs' = [reqs EXCEPT ![s] =
                Returned(@, getDefaultKey(@.loc.forwarded, @.loc.remoteAddress,
                                          @.loc.userId, @.loc.url))]
  /\ pureFrame

NextPure ==
  \/ \E s \in DOMAIN reqs : SanitizeInputCall(s)
  \/ \E s \in DOMAIN reqs : ValidatePasswordStrengthCall(s)
  \/ \E s \in DOMAIN reqs : SanitizeJsonCall(s)
  \/ \E s \in DOMAIN reqs : ValidateOriginCall(s)
  \/ \E s \in DOMAIN reqs : GetDefaultKeyCall(s)

SpecPure == InitPure /\ [][NextPure]_vars

----------------------------------------------------------------------------
(* C16: sanitizeInput *)

\* C16: sanitizeInput(sanitizeInput(x)) = sanitizeInput(x) for every input x,
\* and sanitizeInput(x) has 1000 characters at most.
C16_SanitizeInputIdempotent ==
  \A s \in DOMAIN reqs :
    (reqs[s].pc = "returned" /\ reqs[s].op = "sanitizeInput")
    => /\ sanitizeInput(reqs[s].res) = reqs[s].res
       /\ Len(reqs[s].res) <= MaxInputLength

----------------------------------------------------------------------------
(* C17: validatePasswordStrength *)

\* the rules in the order of their errors
PasswordRules ==
  <<"at least 8 characters", "less than 128 characters", "one lowercase letter",
    "one uppercase letter", "one number", "too common">>

\* the password breaks the rule
violates(password, rule) ==
  CASE rule = "at least 8 characters" -> Len(password) <= 7
    [] rule = "less than 128 characters" -> Len(password) >= 129
    [] rule = "one lowercase letter" -> \A i \in 1..Len(password) : password[i] \notin LowerChars
    [] rule = "one uppercase letter" -> \A i \in 1..Len(password) : password[i] \notin UpperChars
    [] rule = "one number" -> \A i \in 1..Len(password) : password[i] \notin DigitChars
    [] rule = "too common" ->
         \E c \in 1..Len(commonPasswords), i \in 1..Len(password) :
           /\ i + Len(commonPasswords[c]) - 1 <= Len(password)
           /\ \A j \in 1..Len(commonPasswords[c]) :
                lowerChar(password[i + j - 1]) = commonPasswords[c][j]

\* C17: the errors of validatePasswordStrength are those of all the rules the
\* password breaks, each judged on its own, in the order length < 8,
\* length > 128, lowercase, uppercase, digit, block list; isValid is true
\* exactly when there is no error.
C17_EveryViolationReported ==
  \A s \in DOMAIN reqs :
    (reqs[s].pc = "returned" /\ reqs[s].op = "validatePasswordStrength")
    => /\ reqs[s].res.errors =
            SelectSeq(PasswordRules, LAMBDA rule : violates(reqs[s].loc, rule))
       /\ reqs[s].res.isValid = (reqs[s].res.errors = <<>>)

\* "Qwerty" is short, has no digit and is on the block list
C17_Witness ==
  \E s \in DOMAIN reqs :
    /\ reqs[s].pc = "returned"
    /\ reqs[s].op = "validatePasswordStrength"
    /\ reqs[s].loc = <<"Q", "w", "e", "r", "t", "y">>
    /\ reqs[s].res.errors = <<"at least 8 characters", "one number", "too common">>
    /\ ~reqs[s].res.isValid

----------------------------------------------------------------------------
(* C18: sanitizeJson *)

\* the value without the keys __proto__, constructor and prototype, at every depth
RECURSIVE withoutDangerousKeys(_)
withoutDangerousKeys(v) ==
  CASE v.kind = "array" -> Arr([i \in DOMAIN v.items |-> withoutDangerousKeys(v.items[i])])
    [] v.kind = "object" ->
         Obj([key \in DOMAIN v.own \ DangerousKeys |-> withoutDangerousKeys(v.own[key])])
    [] OTHER -> v

\* C18: sanitizeJson returns a number or null as it is, and an array or an
\* object with the keys __proto__, constructor and prototype removed at every
\* depth and every other key and value kept.
C18_OnlyDangerousKeysRemoved ==
  \A s \in DOMAIN reqs :
    (reqs[s].pc = "returned" /\ reqs[s].op = "sanitizeJson")
    => reqs[s].res = withoutDangerousKeys(reqs[s].loc)

----------------------------------------------------------------------------
(* C19: validateOrigin *)

\* C19: outside production validateOrigin accepts every request; in
\* production it accepts exactly the requests whose Origin header is equal to
\* an entry of corsConfig.origin, and so none without an Origin header.
C19_OriginOnAllowList ==
  \A s \in DOMAIN reqs :
    (reqs[s].pc = "returned" /\ reqs[s].op = "validateOrigin")
    => /\ nodeEnv # "production" => reqs[s].res = TRUE
       /\ nodeEnv = "production"
          => /\ reqs[s].res = (\E entry \in corsOrigins("production") :
                                 reqs[s].loc.origin = entry)
             /\ reqs[s].loc.origin = None => reqs[s].res = FALSE

\* in production an origin that continues an entry of the list is refused
C19_Witness ==
  \E s \in DOMAIN reqs :
    /\ reqs[s].pc = "returned"
    /\ reqs[s].op = "validateOrigin"
    /\ nodeEnv = "production"
    /\ reqs[s].loc.origin = ProductionOrigin \o <<".", "e", "v", "i", "l", ".", "i", "o">>
    /\ reqs[s].res = FALSE

----------------------------------------------------------------------------
(* C20: the default key *)

\* the identity of a request: the user id, else the first address of
\* x-forwarded-for, else the connection's address, else "unknown"
identityOf(input) ==
  IF truthy(input.userId) THEN input.userId
  ELSE IF input.forwarded.kind = "array" THEN input.forwarded.vals[1]
  ELSE IF input.forwarded.kind = "string" /\ truthy(splitFirst(input.forwarded.val, ","))
  THEN splitFirst(input.forwarded.val, ",")
  ELSE IF truthy(input.remoteAddress) THEN input.remoteAddress
  ELSE Unknown

\* the path of a URL: what stands before the query string
pathOf(url) == splitFirst(url, "?")

\* C20: the default key is the identity of the request, a colon and the path
\* of the request, so that requests of one identity to one path share a key.
C20_KeyIsIdentityAndPath ==
  \A s \in DOMAIN reqs :
    (reqs[s].pc = "returned" /\ reqs[s].op = "getDefaultKey")
    => reqs[s].res = identityOf(reqs[s].loc) \o <<":">> \o pathOf(reqs[s].loc.url)

----------------------------------------------------------------------------
(* C21: the status claim of a sign-in *)

\* C21: the step that completes a sign-in leaves the user's row with status
\* ONLINE and lastSeen at the time of the step, and the identity it returns,
\* and the token made of it, carry the status the row then has.
C21_SignInClaimsStoredStatus ==
  [][\A s \in DOMAIN reqs :
       (/\ reqs[s].pc # "done"
        /\ reqs'[s].pc = "done"
        /\ reqs'[s].op = "signin"
        /\ reqs'[s].res.status = 200)
       => LET id == reqs'[s].uid IN
          /\ users'[id].status = "ONLINE"
          /\ users'[id].lastSeen = now
          /\ reqs'[s].res.user.status = users'[id].status
          /\ tokens'[id].status = users'[id].status]_vars

----------------------------------------------------------------------------
(* C22: what the limiter counts *)

\* C22: a registration that reached the limiter has been counted exactly when
\* the status it is answered with is one the limiter counts: with
\* skipFailedRequests not one answered 4xx, with skipSuccessfulRequests not
\* one answered 201.
C22_CountedByFinalStatus ==
  \A s \in DOMAIN reqs :
    (/\ reqs[s].pc = "done"
     /\ reqs[s].op = "register"
     /\ reqs[s].note \notin {"origin", "method"})
    => /\ (limiter.skipFailedRequests /\ reqs[s].res.status \in 400..499)
          => ~reqs[s].loc.counted
       /\ (limiter.skipSuccessfulRequests /\ reqs[s].res.status = 201)
          => ~reqs[s].loc.counted
       /\ reqs[s].loc.counted = shouldCount(reqs[s].res.status, limiter)

----------------------------------------------------------------------------
(* C23: concurrent checks of one key *)

\* C23: however the steps of the handlers in flight interleave, the count of
\* an entry is the number of checks made on it in its window: the i-th check
\* finds count i, and none is lost.
C23_NoLostIncrement ==
  \A key \in DOMAIN rateLimitStore :
    seen[key].resetTime = rateLimitStore[key].resetTime
    => rateLimitStore[key].count = seen[key].checks

\* two registrations are in flight, both checked, neither answered
C23_Witness ==
  /\ \A s \in DOMAIN reqs : reqs[s].pc \notin {"idle", "done"} /\ reqs[s].op = "register"
  /\ \E key \in DOMAIN rateLimitStore :
       /\ rateLimitStore[key].count = 2
       /\ seen[key].checks = 2

----------------------------------------------------------------------------
(* C24: the claims of a session *)

----------------------------------------------------------------------------
(* C25, C26: what the catch blocks of the account handlers answer *)

\* the handlers of register.ts, profile.ts and verify-password.ts
AccountOps == {"register", "profile", "get", "patch", "delete", "password", "verify"}

\* C25 as stated: a request of an account handler in which a call of
\* persistence raised is answered at once, without a second attempt, with
\* status 500 and an error message.
C25_PersistenceFailureAnswers500 ==
  \A s \in DOMAIN reqs :
    (/\ reqs[s].pc # "idle"
     /\ reqs[s].op \in AccountOps
     /\ reqs[s].failed)
    => /\ reqs[s].pc = "done"
       /\ reqs[s].res.status = 500
       /\ reqs[s].res.error # ""

\* the same for every failure but the violation of a unique index in
\* register's create
OtherFailuresAnswer500 ==
  \A s \in DOMAIN reqs :
    (/\ reqs[s].pc # "idle"
     /\ reqs[s].op \in AccountOps
     /\ reqs[s].failed
     /\ reqs[s].note # "unique constraint")
    => /\ reqs[s].pc = "done"
       /\ reqs[s].res = Res(500, "Internal server error", Absent)

\* C26 as stated: a registration answered with a status other than 201 has
\* created no row: the table holds no row made by that request.
C26_RegistrationAllOrNothing ==
  \A s \in DOMAIN reqs :
    (/\ reqs[s].pc = "done"
     /\ reqs[s].op = "register"
     /\ reqs[s].res.status # 201)
    => /\ ~reqs[s].wrote
       /\ "id" \in DOMAIN reqs[s].loc => reqs[s].loc.id \notin DOMAIN users

----------------------------------------------------------------------------
(* C27: display names *)

\* C27 as stated: no two rows of the user table have display names that are
\* equal when case is ignored.
C27_DisplayNamesUnique ==
  \A a, b \in DOMAIN users :
    a # b => toLowerCase(users[a].displayName) # toLowerCase(users[b].displayName)

----------------------------------------------------------------------------
(* C28: requests without a session *)

\* the handlers that ask for a session
SessionOps == {"profile", "get", "patch", "delete", "password", "verify"}

\* the request answered in this step at slot s came without a session: no
\* client holds a cookie, or the handler found no user id
withoutSession(s) ==
  /\ reqs[s].pc = "idle"
  /\ reqs'[s].pc # "idle"
  /\ reqs'[s].op \in SessionOps
  /\ DOMAIN tokens = {} \/ reqs'[s].uid = NoId

\* C28: a request to /user/profile, /user/password or /auth/verify-password
\* without an authenticated session is answered in one step with 401, or 405
\* for a wrong method, reads and writes nothing, and leaves every user,
\* session and account row as it was.
C28_NoSessionNoChange ==
  [][\A s \in DOMAIN reqs :
       withoutSession(s)
       => /\ reqs'[s].pc = "done"
          /\ reqs'[s].res.status \in {401, 405}
          /\ reqs'[s].res.status = 405 => reqs'[s].op \in {"password", "verify"}
          /\ ~reqs'[s].read
          /\ ~reqs'[s].wrote
          /\ users' = users
          /\ sessions' = sessions
          /\ accounts' = accounts]_vars

\* a client without a cookie was answered 401 while another client holds a
\* session and rows have been changed by earlier requests
C28_Witness ==
  /\ \E s \in DOMAIN reqs :
       /\ reqs[s].pc = "done"
       /\ reqs[s].op \in SessionOps
       /\ reqs[s].uid = NoId
       /\ reqs[s].res.status = 401
  /\ DOMAIN tokens # {}
  /\ \E id \in DOMAIN users : users[id].status = "IDLE"

----------------------------------------------------------------------------
(* C29, C30: the limiter's keys and windows *)

\* C29: a check for a key leaves the entry of every other key as it was, count
\* and resetTime, unless that entry's resetTime has passed when the check
\* cleans up, in which case the entry may be removed; it creates no entry
\* under another key.
C29_KeysAreIsolated ==
  [][(lastCheck' # lastCheck \/ rateLimitStore' # rateLimitStore)
     => \A k \in (DOMAIN rateLimitStore \cup DOMAIN rateLimitStore') \ {lastCheck'.key} :
          /\ k \in DOMAIN rateLimitStore
          /\ k \in DOMAIN rateLimitStore' => rateLimitStore'[k] = rateLimitStore[k]
          /\ k \notin DOMAIN rateLimitStore' => now' > rateLimitStore[k].resetTime
    ]_vars

\* the last check was made for one key while the entry of the other key,
\* whose window began earlier, is in the store and not expired
C29_Witness ==
  /\ lastCheck # NoCheck
  /\ \E k \in DOMAIN rateLimitStore :
       /\ k # lastCheck.key
       /\ rateLimitStore[k].count >= 2
       /\ rateLimitStore[k].resetTime >= now
       /\ rateLimitStore[k].resetTime < lastCheck.entry.resetTime

\* the check made in this step, for key k, counts on the entry it found
countsOn(k) ==
  /\ lastCheck' # lastCheck
  /\ lastCheck'.key = k
  /\ k \in DOMAIN rateLimitStore
  /\ lastCheck'.entry.resetTime = rateLimitStore[k].resetTime

\* a check for key k has been refused in the window of the entry now stored
refusedInWindow(k) ==
  /\ k \in DOMAIN rateLimitStore
  /\ seen[k].resetTime = rateLimitStore[k].resetTime
  /\ seen[k].admitted < seen[k].checks

\* C30: with both skip flags false, the count of a key does not decrease
\* while its resetTime stays the same; every check within the window, the
\* refused ones included, adds one to it; and once a check of the window has
\* been refused, every later check of that window is refused.
C30_RejectionIsSticky ==
  [][\A k \in Keys :
       /\ (/\ k \in DOMAIN rateLimitStore
           /\ k \in DOMAIN rateLimitStore'
           /\ rateLimitStore'[k].resetTime = rateLimitStore[k].resetTime)
          => rateLimitStore'[k].count >= rateLimitStore[k].count
       /\ countsOn(k)
          => /\ lastCheck'.entry.count = rateLimitStore[k].count + 1
             /\ refusedInWindow(k) => ~lastCheck'.result.success
    ]_vars

\* the last check was refused, counted all the same, and was not the first
\* refusal of its window
C30_Witness ==
  /\ lastCheck # NoCheck
  /\ ~lastCheck.result.success
  /\ lastCheck.found
  /\ lastCheck.entry.count = lastCheck.before.count + 1
  /\ lastCheck.before.count > limiter.maxRequests
  /\ seen[lastCheck.key].checks - seen[lastCheck.key].admitted >= 2
====
